---- MODULE Spec2Model ----
(***************************************************************************)
(* Arena orchestration and decision lifecycle of uteki.open                *)
(* (backend/uteki/domains/index): ArenaService.run / _call_model, the      *)
(* structured-output parser and the approve_decision handler.              *)
(***************************************************************************)
EXTENDS Integers, Sequences, FiniteSets, TLC

(***************************************************************************)
(* Bounds of the model.                                                    *)
(***************************************************************************)
\* How many entries of the ARENA_MODELS catalog are considered (a prefix).
MaxModels == 3
\* Longest raw model text enumerated exhaustively, in lexemes.
MaxLen == 3
\* Longest allocation list of an approve request.
MaxAllocs == 2

\* Rows of the schedule table.
MaxTasks == 2

\* Symbols on the watchlist.
MaxSymbols == 2

(***************************************************************************)
(* Shared helpers.                                                         *)
(***************************************************************************)
Null == "null"

Range(s) == {s[i] : i \in 1..Len(s)}

Min(a, b) == IF a <= b THEN a ELSE b

\* All sequences over S of length at most n.
SeqsUpTo(S, n) == UNION {[1..k -> S] : k \in 0..n}

(***************************************************************************)
(* Raw model text.  A text is a sequence of lexemes; each lexeme stands    *)
(* for the literal characters it spells.  A lexeme written 'x' stands for  *)
(* the double-quoted JSON string "x".                                      *)
(***************************************************************************)
\* Three backticks followed by json, and three backticks alone.
FenceJson == "<fence>json"
Fence == "<fence>"
Sp == " "

BareWords == {"action", "Action", "confidence", "buy", "HOLD"}
Quoted == {"'action'", "'confidence'", "'buy'"}
Digits == {"7"}
Dot == "."

Lexemes ==
    {FenceJson, Fence, Sp, "{", "}", "[", "]", ":", "=", ","}
        \cup {Dot} \cup Digits \cup BareWords \cup Quoted

\* The characters between the quotes of a quoted lexeme.
Inner(t) ==
    CASE t = "'action'" -> "action"
      [] t = "'confidence'" -> "confidence"
      [] t = "'buy'" -> "buy"
      [] OTHER -> t

\* Lexemes made of \w characters only.
IsWord(t) == t \in BareWords \cup Digits

\* str.upper() on the spelling of a lexeme.
Upper(t) ==
    CASE t \in {"action", "Action"} -> "ACTION"
      [] t = "confidence" -> "CONFIDENCE"
      [] t = "buy" -> "BUY"
      [] OTHER -> t

\* str.lower(), used for re.IGNORECASE comparison with a pattern literal.
Lower(t) ==
    CASE t = "Action" -> "action"
      [] t = "HOLD" -> "hold"
      [] OTHER -> t

Drop(s, n) == SubSeq(s, n + 1, Len(s))

RECURSIVE SkipWs(_)
SkipWs(s) == IF s # <<>> /\ s[1] = Sp THEN SkipWs(Tail(s)) ELSE s

RECURSIVE StripTrailingWs(_)
StripTrailingWs(s) ==
    IF s # <<>> /\ s[Len(s)] = Sp THEN StripTrailingWs(SubSeq(s, 1, Len(s) - 1)) ELSE s

\* Length of the longest prefix of s whose lexemes are all in S.
RECURSIVE RunLen(_, _)
RunLen(s, S) == IF s # <<>> /\ s[1] \in S THEN 1 + RunLen(Tail(s), S) ELSE 0

(***************************************************************************)
(* json.loads on a lexeme text: objects, arrays, quoted strings and        *)
(* numbers; whitespace may separate lexemes but not the parts of a number. *)
(***************************************************************************)
JsonFail == [ok |-> FALSE, rest |-> <<>>, kind |-> "invalid"]

JsonOk(kind, rest) == [ok |-> TRUE, rest |-> rest, kind |-> kind]

\* A number: digits, then optionally a dot followed by at least one digit.
JsonNumber(s) ==
    LET n == RunLen(s, Digits)
        after == Drop(s, n)
        frac == IF after # <<>> /\ after[1] = Dot THEN RunLen(Tail(after), Digits) ELSE 0
    IN IF frac > 0 THEN JsonOk("number", Drop(after, 1 + frac)) ELSE JsonOk("number", after)

RECURSIVE JsonValue(_), JsonMembers(_), JsonElements(_)
JsonValue(s0) ==
    LET s == SkipWs(s0)
    IN IF s = <<>> THEN JsonFail
       ELSE IF s[1] \in Quoted THEN JsonOk("string", Tail(s))
       ELSE IF s[1] \in Digits THEN JsonNumber(s)
       ELSE IF s[1] = "{" THEN
            LET t == SkipWs(Tail(s))
            IN IF t # <<>> /\ t[1] = "}" THEN JsonOk("object", Tail(t)) ELSE JsonMembers(t)
       ELSE IF s[1] = "[" THEN
            LET t == SkipWs(Tail(s))
            IN IF t # <<>> /\ t[1] = "]" THEN JsonOk("array", Tail(t)) ELSE JsonElements(t)
       ELSE JsonFail

\* After an opening brace: key : value, then a comma and more, or the closing brace.
JsonMembers(s0) ==
    LET s == SkipWs(s0)
    IN IF s = <<>> \/ s[1] \notin Quoted THEN JsonFail
       ELSE LET c == SkipWs(Tail(s))
            IN IF c = <<>> \/ c[1] # ":" THEN JsonFail
               ELSE LET v == JsonValue(Tail(c))
                    IN IF ~v.ok THEN JsonFail
                       ELSE LET r == SkipWs(v.rest)
                            IN IF r = <<>> THEN JsonFail
                               ELSE IF r[1] = "}" THEN JsonOk("object", Tail(r))
                               ELSE IF r[1] = "," THEN JsonMembers(Tail(r))
                               ELSE JsonFail

\* After an opening bracket: value, then a comma and more, or the closing bracket.
JsonElements(s0) ==
    LET v == JsonValue(s0)
    IN IF ~v.ok THEN JsonFail
       ELSE LET r == SkipWs(v.rest)
            IN IF r = <<>> THEN JsonFail
               ELSE IF r[1] = "]" THEN JsonOk("array", Tail(r))
               ELSE IF r[1] = "," THEN JsonElements(Tail(r))
               ELSE JsonFail

\* json.loads(text): one value, surrounded by optional whitespace, and nothing else.
json_loads(text) ==
    LET v == JsonValue(text)
    IN IF v.ok /\ SkipWs(v.rest) = <<>> THEN [ok |-> TRUE, kind |-> v.kind]
       ELSE [ok |-> FALSE, kind |-> "invalid"]

\* The value json.loads builds: the text without its insignificant whitespace.
Compact(text) == SelectSeq(text, LAMBDA t : t # Sp)

(***************************************************************************)
(* The three regular expressions of _parse_structured_output.              *)
(***************************************************************************)
NoMatch == [found |-> FALSE, group |-> <<>>]

Match(group) == [found |-> TRUE, group |-> group]

\* Index of the first lexeme of s that is in S, or 0.
FirstIndex(s, S) ==
    IF \E i \in 1..Len(s) : s[i] \in S
    THEN CHOOSE i \in 1..Len(s) : s[i] \in S /\ \A j \in 1..(i - 1) : s[j] \notin S
    ELSE 0

\* re.search(r'```json\s*(.*?)\s*```', raw, re.DOTALL): the first opening fence
\* and the nearest three backticks after it (an opening fence begins with them
\* too); group 1 is what lies between, without the surrounding whitespace.
FenceSearch(raw) ==
    LET i == FirstIndex(raw, {FenceJson})
    IN IF i = 0 THEN NoMatch
       ELSE LET rest == Drop(raw, i)
                j == FirstIndex(rest, {Fence, FenceJson})
            IN IF j = 0 THEN NoMatch
               ELSE Match(StripTrailingWs(SkipWs(SubSeq(rest, 1, j - 1))))

\* "?key"?\s*[:=]\s* matched with its key at lexeme i (re.IGNORECASE): what
\* follows the separator, or <<"-">> when the pattern does not match there.
AfterKey(raw, i, key, quotedKey) ==
    IF ~(Lower(raw[i]) = key \/ raw[i] = quotedKey) THEN <<"-">>
    ELSE LET t == SkipWs(Drop(raw, i))
         IN IF t = <<>> \/ t[1] \notin {":", "="} THEN <<"-">>
            ELSE SkipWs(Tail(t))

\* r'"?action"?\s*[:=]\s*"?(\w+)"?' matched at lexeme i.
ActionAt(raw, i) ==
    LET u == AfterKey(raw, i, "action", "'action'")
    IN IF u = <<>> \/ u = <<"-">> THEN NoMatch
       ELSE IF u[1] \in Quoted THEN Match(<<Inner(u[1])>>)
       ELSE IF IsWord(u[1]) THEN Match(SubSeq(u, 1, RunLen(u, BareWords \cup Digits)))
       ELSE NoMatch

\* r'"?confidence"?\s*[:=]\s*([\d.]+)' matched at lexeme i.
ConfidenceAt(raw, i) ==
    LET u == AfterKey(raw, i, "confidence", "'confidence'")
        n == RunLen(u, Digits \cup {Dot})
    IN IF n = 0 THEN NoMatch ELSE Match(SubSeq(u, 1, n))

\* re.search: the leftmost position where the pattern matches.
ActionSearch(raw) ==
    LET hits == {i \in 1..Len(raw) : ActionAt(raw, i).found}
    IN IF hits = {} THEN NoMatch
       ELSE ActionAt(raw, CHOOSE i \in hits : \A j \in hits : i <= j)

ConfidenceSearch(raw) ==
    LET hits == {i \in 1..Len(raw) : ConfidenceAt(raw, i).found}
    IN IF hits = {} THEN NoMatch
       ELSE ConfidenceAt(raw, CHOOSE i \in hits : \A j \in hits : i <= j)

\* float(s) for s of digits and dots: ValueError unless s has a digit and at
\* most one dot; the value is given by the digits before and after the dot.
float(s) ==
    LET dots == Len(SelectSeq(s, LAMBDA t : t = Dot))
        digs == Len(SelectSeq(s, LAMBDA t : t \in Digits))
        int == RunLen(s, Digits)
    IN IF dots > 1 \/ digs = 0 THEN [ok |-> FALSE, value |-> <<0, 0>>]
       ELSE [ok |-> TRUE, value |-> <<int, digs - int>>]

\* group(1).upper()
upper(s) == [k \in 1..Len(s) |-> Upper(s[k])]

(***************************************************************************)
(* ArenaService._parse_structured_output                                   *)
(***************************************************************************)
\* None for a field that holds a sequence when present.
None == <<>>

Returns(status, json, action, confidence) ==
    [exc |-> "none", parse_status |-> status, json |-> json,
     action |-> action, confidence |-> confidence]

Raises(exc) ==
    [exc |-> exc, parse_status |-> Null, json |-> None,
     action |-> None, confidence |-> None]

\* Tier 1 (lines 230-243): the fenced block if there is one, else the whole
\* text, through json.loads; the status is then stored INTO the parsed value.
\* Only JSONDecodeError/ValueError is caught: item assignment on a parsed
\* value that is no dict raises TypeError, which leaves the function.
\* Tier 2 (lines 246-257): the two patterns; float() of the confidence
\* capture is outside any try.  Tier 3 (line 260): raw_only.
parse_structured_output(raw) ==
    LET json_match == FenceSearch(raw)
        text == IF json_match.found THEN json_match.group ELSE raw
        parsed == json_loads(text)
        action_match == ActionSearch(raw)
        confidence_match == ConfidenceSearch(raw)
        action == IF action_match.found THEN upper(action_match.group) ELSE None
    IN IF parsed.ok
       THEN IF parsed.kind = "object"
            THEN Returns("structured", Compact(text), None, None)
            ELSE Raises("TypeError")
       ELSE IF confidence_match.found /\ ~float(confidence_match.group).ok
            THEN Raises("ValueError")
       ELSE IF action_match.found \/ confidence_match.found
            THEN Returns("partial", None, action,
                         IF confidence_match.found
                         THEN float(confidence_match.group).value ELSE None)
       ELSE Returns("raw_only", None, None, None)

\* Lines 162-163 and 178 of _call_model: the status is popped from the
\* parser's result and the structured output is stored unless it is raw_only.
StoredStructured(out) ==
    IF out.parse_status # "raw_only"
    THEN [json |-> out.json, action |-> out.action, confidence |-> out.confidence]
    ELSE None

(***************************************************************************)
(* Arena: catalog, settings and the adapter factory.                       *)
(***************************************************************************)
MODEL_TIMEOUT == 60

ARENA_MODELS ==
    << [provider |-> "anthropic", model |-> "claude-sonnet-4-20250514", api_key_attr |-> "anthropic_api_key"],
       [provider |-> "openai", model |-> "gpt-4o", api_key_attr |-> "openai_api_key"],
       [provider |-> "deepseek", model |-> "deepseek-chat", api_key_attr |-> "deepseek_api_key"],
       [provider |-> "google", model |-> "gemini-2.5-pro-thinking", api_key_attr |-> "google_api_key"],
       [provider |-> "qwen", model |-> "qwen-plus", api_key_attr |-> "dashscope_api_key"],
       [provider |-> "minimax", model |-> "MiniMax-Text-01", api_key_attr |-> "minimax_api_key"] >>

\* The catalog entries the model considers, by position in ARENA_MODELS.
Catalog == 1..Min(MaxModels, Len(ARENA_MODELS))

ApiKeyAttrs == {ARENA_MODELS[m].api_key_attr : m \in Catalog}

\* LLMProvider: the providers the enum names.
LLMProvider == {"openai", "anthropic", "deepseek", "qwen", "dashscope", "minimax", "google"}

\* provider_map.get(provider_name) in _call_model.
provider_map(provider_name) ==
    IF provider_name \in {"anthropic", "openai", "deepseek", "google", "qwen", "minimax"}
    THEN provider_name ELSE Null

\* The parameters LLMAdapterFactory.create_adapter declares.
CreateAdapterParams == {"provider", "api_key", "model", "config"}

\* The keyword arguments _call_model passes to create_adapter.
CallKeywords == {"provider", "api_key", "model", "config", "base_url"}

\* LLMAdapterFactory.create_adapter called with the given keyword arguments:
\* a keyword the function does not declare is a TypeError at the call; a
\* provider outside the enum's branches is a ValueError.
create_adapter(provider, keywords) ==
    IF ~(keywords \subseteq CreateAdapterParams) THEN "TypeError"
    ELSE IF provider \in LLMProvider THEN "adapter"
    ELSE "ValueError"

\* What the endpoint behind a model would do with a chat call: answer with a
\* text within the timeout, not answer within MODEL_TIMEOUT, or fail.
Slow == <<"SLOW">>
Fails == <<"FAILS">>
Uncalled == <<"NONE">>
ArenaTexts == { <<"{", "'action'", ":", "'buy'", "}">> }
AdapterOutcomes == ArenaTexts \cup {Slow, Fails}

\* The session the caller of run passes in.  A session handed out by
\* db_manager.get_postgres_session is named after the task that asked for it.
CallerSession == <<"request">>
NoSession == <<"none">>

VARIABLES
    api_keys,          \* settings: the api_key_attr names that hold a credential
    decision_harness,  \* ids of the stored DecisionHarness rows
    harness_id,        \* argument of ArenaService.run
    backend,           \* per catalog model: what its endpoint would do
    run_pc,            \* "start", "gather", "returned", "raised"
    available_models,  \* run's list of credentialed catalog entries
    run_result,        \* the list run returns
    task_pc,           \* per model: "idle", "created", "open", "added", "committed", "done"
    model_session,     \* per model: the session its task holds
    pending,           \* per model: the ModelIO added to its session, not yet committed
    in_try,            \* per model: the pending record was added inside the try body
    task_result,       \* per model: what the task's coroutine produced
    model_io,          \* the committed ModelIO rows
    commit_log,        \* per committed row: the session and task that wrote it
    open_sessions,     \* sessions acquired and not yet released
    db_failed          \* a commit or refresh of this run has raised

VARIABLES
    raw,          \* the raw model text handed to the parser
    parse_pc,     \* "input", "parsed"
    parse_out     \* what _parse_structured_output produced

parse_vars == <<raw, parse_pc, parse_out>>

VARIABLES
    positions,          \* symbols the brokerage account holds
    snb_totp_secret,    \* settings: whether a TOTP secret is configured
    broker,             \* how the broker client answers the position query
    request,            \* the approve request: user, validity of its code, allocations
    approve_pc,         \* where the approve_decision handler is
    position_checked,   \* the position-count check has been evaluated
    next_alloc,         \* index of the allocation the order loop is at
    execution_results,  \* the handler's execution_results list
    order_calls,        \* the place_order calls made, in order
    decision_log        \* the DecisionLog rows created

approve_vars ==
    <<positions, snb_totp_secret, broker, request, approve_pc, position_checked,
      next_alloc, execution_results, order_calls, decision_log>>

VARIABLES
    schedule_task,  \* the ScheduleTask rows, by task id
    now             \* datetime.now(timezone.utc) when a handler reads the clock

sched_vars == <<schedule_task, now>>

VARIABLES
    watchlist,       \* the active Watchlist symbols, in query order
    fetch,           \* per symbol: how the FMP history endpoint answers
    db,              \* per symbol: how the database answers its price queries
    gap,             \* per symbol: what smart_backfill finds in the stored dates
    jumpy,           \* symbols whose stored closes hold a change above 20%
    price_config,    \* the task's config: validate_after_update, enable_backfill
    price_task_id,   \* task_id of the trigger request
    price_pc,        \* where trigger_schedule / robust_update_all is
    sym_idx,         \* index of the watchlist symbol the loop is at
    attempt,         \* attempts incremental_update_with_retry has made
    queries,         \* price queries issued for the current symbol
    price_results,         \* robust_update_all's results dict
    price_response   \* what trigger_schedule returns

price_vars ==
    <<watchlist, fetch, db, gap, jumpy, price_config, price_task_id, price_pc,
      sym_idx, attempt, queries, price_results, price_response>>

VARIABLES
    trig_kind,      \* per request: "manual" (run_arena) or "task" (trigger_schedule)
    trig_task_id,   \* task_id of the trigger requests
    trig_pc,        \* per request: where its handler is
    build_calls,    \* per request: calls of HarnessBuilder.build
    run_calls,      \* per request: calls of ArenaService.run
    trig_harness,   \* per request: id of the harness its build returned
    trig_tasks,     \* per request and model: what the invocation task produced
    trig_models,    \* per request: model_ios, the list run returned
    score_idx,      \* per request: index the score loop is at
    score_calls     \* the update_on_decision calls made, in order

trigger_vars ==
    <<trig_kind, trig_task_id, trig_pc, build_calls, run_calls, trig_harness,
      trig_tasks, trig_models, score_idx, score_calls>>

VARIABLES
    environment,         \* settings.environment
    croniter_installed,  \* whether "from croniter import croniter" succeeds
    db_reachable,        \* whether the startup session and its first query work
    start_pc,            \* where lifespan's startup is
    enabled,             \* ids get_enabled_tasks returned, in order
    start_idx            \* index of the task the startup loop is at

startup_vars == <<environment, croniter_installed, db_reachable, start_pc, enabled, start_idx>>

VARIABLES
    harness_store,    \* the DecisionHarness rows, by id: every column of each
    adopt_request,    \* the adopt request: harness_id of the path, model_io_id
    adopt_pc,         \* where adopt_model is
    adoption_calls,   \* the update_on_adoption calls made
    decide_request,   \* the skip or reject request: which, and its harness_id
    decide_pc         \* where skip_decision / reject_decision is

decide_vars ==
    <<harness_store, adopt_request, adopt_pc, adoption_calls, decide_request, decide_pc>>

VARIABLES
    render_harness,   \* the DecisionHarness row both runs load
    render_keys,      \* the credentials configured while they run
    render_pc,        \* per run: where ArenaService.run is
    user_prompt,      \* per run: the text line 60 produced
    task_prompt,      \* per run and model: the user_prompt its task was created with
    full_input        \* per run and model: the input _call_model assembled

render_vars ==
    <<render_harness, render_keys, render_pc, user_prompt, task_prompt, full_input>>

VARIABLES
    cost_args,        \* provider, model, input_tokens, output_tokens of the call
    cost_pc,          \* which estimates have been computed
    cost_single,      \* _estimate_cost(provider, model, in, out), in 1/10000 dollar
    cost_double       \* _estimate_cost(provider, model, in, 2*out), in 1/10000 dollar

cost_vars == <<cost_args, cost_pc, cost_single, cost_double>>

VARIABLES
    held,             \* the symbols the broker account holds
    conc_request,     \* per request: its allocations
    conc_pc,          \* per request: where approve_decision is
    current_symbols,  \* per request: the held symbols its position query returned
    conc_next,        \* per request: the allocation the order loop is at
    conc_results,     \* per request: its execution results
    conc_log          \* the DecisionLog rows created

conc_vars ==
    <<held, conc_request, conc_pc, current_symbols, conc_next, conc_results, conc_log>>

VARIABLES
    update_outcome,   \* what the k-th call of incremental_update would do
    retry_pc,         \* where incremental_update_with_retry is
    retry_attempt,    \* the loop variable attempt
    update_calls,     \* the number of incremental_update calls made
    sleeps,           \* the asyncio.sleep calls made, in seconds
    last_error,       \* the local last_error
    update_result     \* the dict returned

retry_vars ==
    <<update_outcome, retry_pc, retry_attempt, update_calls, sleeps, last_error, update_result>>

VARIABLES
    prompt_versions,  \* the PromptVersion rows
    next_version_id,  \* the id the next inserted row gets
    got_current,      \* get_current has run
    prompt_response   \* the last call and how it ended

prompt_vars == <<prompt_versions, next_version_id, got_current, prompt_response>>

VARIABLES
    schedule_response \* the last schedule call and the task it named

manage_vars == <<schedule_response>>

arena_vars ==
    <<api_keys, decision_harness, harness_id, backend, run_pc, available_models,
      run_result, task_pc, model_session, pending, in_try, task_result, model_io,
      commit_log, open_sessions, db_failed>>

\* What each part leaves alone.
outside_arena == <<parse_vars, approve_vars, sched_vars, price_vars, trigger_vars, startup_vars, decide_vars, render_vars, cost_vars, conc_vars, retry_vars, prompt_vars, manage_vars>>

outside_parse == <<arena_vars, approve_vars, sched_vars, price_vars, trigger_vars, startup_vars, decide_vars, render_vars, cost_vars, conc_vars, retry_vars, prompt_vars, manage_vars>>

outside_approve == <<arena_vars, parse_vars, sched_vars, price_vars, trigger_vars, startup_vars, decide_vars, render_vars, cost_vars, conc_vars, retry_vars, prompt_vars, manage_vars>>

outside_price == <<arena_vars, parse_vars, approve_vars, trigger_vars, startup_vars, decide_vars, render_vars, cost_vars, conc_vars, retry_vars, prompt_vars, manage_vars>>

outside_trigger == <<parse_vars, approve_vars, price_vars, startup_vars, decide_vars, render_vars, cost_vars, conc_vars, retry_vars, prompt_vars, manage_vars>>

outside_startup == <<arena_vars, parse_vars, approve_vars, price_vars, trigger_vars, decide_vars, render_vars, cost_vars, conc_vars, retry_vars, prompt_vars, manage_vars>>

outside_decide == <<parse_vars, sched_vars, price_vars, trigger_vars, startup_vars, render_vars, cost_vars, conc_vars, retry_vars, prompt_vars, manage_vars>>

outside_render == <<arena_vars, parse_vars, approve_vars, sched_vars, price_vars, trigger_vars, startup_vars, decide_vars, cost_vars, conc_vars, retry_vars, prompt_vars, manage_vars>>

outside_cost == <<arena_vars, parse_vars, approve_vars, sched_vars, price_vars, trigger_vars, startup_vars, decide_vars, render_vars, conc_vars, retry_vars, prompt_vars, manage_vars>>

outside_conc == <<arena_vars, parse_vars, approve_vars, sched_vars, price_vars, trigger_vars, startup_vars, decide_vars, render_vars, cost_vars, retry_vars, prompt_vars, manage_vars>>

outside_retry == <<arena_vars, parse_vars, approve_vars, sched_vars, price_vars, trigger_vars, startup_vars, decide_vars, render_vars, cost_vars, conc_vars, prompt_vars, manage_vars>>

outside_prompt == <<arena_vars, parse_vars, approve_vars, sched_vars, price_vars, trigger_vars, startup_vars, decide_vars, render_vars, cost_vars, conc_vars, retry_vars, manage_vars>>

outside_manage == <<arena_vars, parse_vars, approve_vars, price_vars, trigger_vars, startup_vars, decide_vars, render_vars, cost_vars, conc_vars, retry_vars, prompt_vars>>

NoMessage == [text |-> Null, seconds |-> 0]

\* ModelIO(...) as built at lines 171-185 (success), 195-203 (timeout) and
\* 212-220 (error).
\* The rows a task has committed.
RowsOf(m) == {r \in model_io : r.id[1] = m}

\* The id names the task (one per model) and counts the ModelIO objects the
\* task has built; the code draws a fresh uuid.
ModelIO(m, status, error_message, output_raw, output_structured, parse_status) ==
    [id |-> <<m, Cardinality(RowsOf(m)) + 1>>,
     harness_id |-> harness_id,
     model_provider |-> ARENA_MODELS[m].provider,
     model_name |-> ARENA_MODELS[m].model,
     status |-> status,
     error_message |-> error_message,
     output_raw |-> output_raw,
     output_structured |-> output_structured,
     parse_status |-> parse_status]

SuccessIO(m, output_raw) ==
    LET out == parse_structured_output(output_raw)
    IN ModelIO(m, "success", NoMessage, output_raw, StoredStructured(out), out.parse_status)

TimeoutIO(m) ==
    ModelIO(m, "timeout", [text |-> "Timeout after {MODEL_TIMEOUT}s", seconds |-> MODEL_TIMEOUT],
            None, None, Null)

ErrorIO(m, e) ==
    ModelIO(m, "error", [text |-> e, seconds |-> 0], None, None, Null)

NoRecord == [id |-> <<0, 0>>, status |-> Null]

\* What a task's coroutine produced: nothing yet, the record's dict, or an
\* exception that left the coroutine.
NoResult == [kind |-> "none"]
Returned(row) == [kind |-> "dict", value |-> row]
Raised(e) == [kind |-> "exception", error |-> e]

(***************************************************************************)
(* ArenaService._call_model, one task per credentialed catalog model.      *)
(***************************************************************************)
\* db_manager.get_postgres_session() called by the task of model m: a session
\* of its own for each call.
get_postgres_session(m) == <<"task", m>>

\* Leaving the "async with" block closes the session.
release_session(m) == open_sessions \ {model_session[m]}

WriteSessionShared(m) == CallerSession

\* The session the task's add/commit/refresh go through (model_session, not
\* the session argument).
WriteSession(m) == model_session[m]

\* ModelIO.to_dict(): the row's columns with its id.
to_dict(io) ==
    [id |-> io.id, harness_id |-> io.harness_id, model_provider |-> io.model_provider,
     model_name |-> io.model_name, status |-> io.status,
     error_message |-> io.error_message, parse_status |-> io.parse_status]

\* Lines 119-186, 193-204 and 210-221: the try body up to the record it adds
\* to the session, with the handlers of asyncio.TimeoutError and Exception.
\* has_base_url: whether settings carries google_api_base_url (it is not a
\* declared field; extra settings are allowed).
InvokeOutcome(m, has_base_url) ==
    LET provider_name == ARENA_MODELS[m].provider
        provider == provider_map(provider_name)
        adapter == create_adapter(provider, CallKeywords)
        out == parse_structured_output(backend[m])
    IN IF provider = Null THEN ErrorIO(m, "ValueError: Unknown provider")
       ELSE IF provider_name = "google" /\ ~has_base_url
            THEN ErrorIO(m, "AttributeError: google_api_base_url")
       ELSE IF adapter # "adapter"
            THEN ErrorIO(m, adapter)
       ELSE IF provider_name = "google"
            THEN ErrorIO(m, "TypeError: async for over a coroutine")
       ELSE IF backend[m] = Slow THEN TimeoutIO(m)
       ELSE IF backend[m] = Fails THEN ErrorIO(m, "adapter error")
       ELSE IF out.exc # "none" THEN ErrorIO(m, out.exc)
       ELSE SuccessIO(m, backend[m])

\* async with db_manager.get_postgres_session() as model_session (line 118).
Acquire(m) ==
    /\ UNCHANGED outside_arena
    /\ run_pc = "gather"
    /\ task_pc[m] = "created"
    /\ model_session' = [model_session EXCEPT ![m] = get_postgres_session(m)]
    /\ open_sessions' = open_sessions \cup {get_postgres_session(m)}
    /\ task_pc' = [task_pc EXCEPT ![m] = "open"]
    /\ UNCHANGED <<api_keys, decision_harness, harness_id, backend, run_pc,
                   available_models, run_result, pending, in_try, task_result,
                   model_io, commit_log, db_failed>>

\* From the session to model_session.add(model_io): lines 119-186 on success,
\* the handler bodies up to their add otherwise.
CallModel(m) ==
    /\ UNCHANGED outside_arena
    /\ task_pc[m] = "open"
    /\ \E has_base_url \in (IF ARENA_MODELS[m].provider = "google" THEN BOOLEAN ELSE {TRUE}) :
          LET io == InvokeOutcome(m, has_base_url)
          IN /\ pending' = [pending EXCEPT ![m] = io]
             /\ in_try' = [in_try EXCEPT ![m] = (io.status = "success")]
    /\ task_pc' = [task_pc EXCEPT ![m] = "added"]
    /\ UNCHANGED <<api_keys, decision_harness, harness_id, backend, run_pc,
                   available_models, run_result, model_session, task_result,
                   model_io, commit_log, open_sessions, db_failed>>

\* An exception raised by commit or refresh: inside the try body (line 187 or
\* 188) the Exception handler takes it and adds an error record of its own;
\* inside a handler (lines 205-206, 222-223) it leaves the coroutine, and the
\* "async with" block releases the session on the way out.
DbFailure(m, e) ==
    /\ db_failed' = TRUE
    /\ IF in_try[m]
       THEN /\ pending' = [pending EXCEPT ![m] = ErrorIO(m, e)]
            /\ in_try' = [in_try EXCEPT ![m] = FALSE]
            /\ task_pc' = [task_pc EXCEPT ![m] = "added"]
            /\ UNCHANGED <<task_result, open_sessions>>
       ELSE /\ task_result' = [task_result EXCEPT ![m] = Raised(e)]
            /\ task_pc' = [task_pc EXCEPT ![m] = "done"]
            /\ open_sessions' = release_session(m)
            /\ UNCHANGED <<pending, in_try>>

\* await model_session.commit(): the pending record becomes a row, or the
\* commit raises.
Commit(m) ==
    /\ UNCHANGED outside_arena
    /\ task_pc[m] = "added"
    /\ \E ok \in BOOLEAN :
          IF ok
          THEN /\ model_io' = model_io \cup {pending[m]}
               /\ commit_log' = commit_log \cup
                      {[id |-> pending[m].id, session |-> WriteSession(m), task |-> m]}
               /\ task_pc' = [task_pc EXCEPT ![m] = "committed"]
               /\ UNCHANGED <<pending, in_try, task_result, open_sessions, db_failed>>
          ELSE /\ DbFailure(m, "commit failed")
               /\ UNCHANGED <<model_io, commit_log>>
    /\ UNCHANGED <<api_keys, decision_harness, harness_id, backend, run_pc,
                   available_models, run_result, model_session>>

\* await model_session.refresh(model_io); return model_io.to_dict(), leaving
\* the "async with" block; or the refresh raises.
Refresh(m) ==
    /\ UNCHANGED outside_arena
    /\ task_pc[m] = "committed"
    /\ \E ok \in BOOLEAN :
          IF ok
          THEN /\ task_result' = [task_result EXCEPT ![m] = Returned(to_dict(pending[m]))]
               /\ task_pc' = [task_pc EXCEPT ![m] = "done"]
               /\ open_sessions' = release_session(m)
               /\ UNCHANGED <<pending, in_try, db_failed>>
          ELSE DbFailure(m, "refresh failed")
    /\ UNCHANGED <<api_keys, decision_harness, harness_id, backend, run_pc,
                   available_models, run_result, model_session, model_io,
                   commit_log>>

(***************************************************************************)
(* ArenaService.run                                                        *)
(***************************************************************************)
AvailableModelsUnfiltered == [m \in Catalog |-> m]

\* Lines 63-67: the catalog entries whose api_key_attr holds a credential, in
\* catalog order.
AvailableModels ==
    SelectSeq([m \in Catalog |-> m], LAMBDA m : ARENA_MODELS[m].api_key_attr \in api_keys)

ReturnExceptionsOff == FALSE

\* return_exceptions=True at line 86.
ReturnExceptions == TRUE

Launched == Range(available_models)

\* A join that ends with the first finished task.
GatherDoneFirst(return_exceptions) == \E m \in Launched : task_pc[m] = "done"

\* asyncio.gather(*tasks, return_exceptions=...): with return_exceptions it
\* completes when every task has, and hands back results and exceptions in
\* task order; without it the first exception is raised to the awaiter.
GatherDone(return_exceptions) ==
    \/ \A m \in Launched : task_pc[m] = "done"
    \/ ~return_exceptions /\ \E m \in Launched : task_result[m].kind = "exception"

gather(return_exceptions) ==
    IF ~return_exceptions /\ \E m \in Launched : task_result[m].kind = "exception"
    THEN [raised |-> TRUE, results |-> <<>>]
    ELSE [raised |-> FALSE,
          results |-> [i \in 1..Len(available_models) |-> task_result[available_models[i]]]]

RECURSIVE collect_successes(_)
collect_successes(results) ==
    IF results = <<>> THEN <<>>
    ELSE IF Head(results).kind = "dict" /\ Head(results).value.status = "success"
         THEN <<Head(results).value>> \o collect_successes(Tail(results))
    ELSE collect_successes(Tail(results))

\* Lines 88-95: exceptions are logged and left out, dicts are kept.
RECURSIVE collect(_)
collect(results) ==
    IF results = <<>> THEN <<>>
    ELSE IF Head(results).kind = "exception" THEN collect(Tail(results))
    ELSE IF Head(results).kind = "dict" THEN <<Head(results).value>> \o collect(Tail(results))
    ELSE collect(Tail(results))

\* Lines 46-84: load the harness, filter the catalog, create the tasks.
RunStart ==
    /\ UNCHANGED outside_arena
    /\ run_pc = "start"
    /\ IF harness_id \notin decision_harness
       THEN /\ run_pc' = "raised"
            /\ UNCHANGED <<available_models, run_result, task_pc>>
       ELSE IF AvailableModels = <<>>
       THEN /\ run_pc' = "returned"
            /\ run_result' = <<>>
            /\ UNCHANGED <<available_models, task_pc>>
       ELSE /\ run_pc' = "gather"
            /\ available_models' = AvailableModels
            /\ task_pc' = [m \in Catalog |->
                             IF m \in Range(AvailableModels) THEN "created" ELSE "idle"]
            /\ UNCHANGED run_result
    /\ UNCHANGED <<api_keys, decision_harness, harness_id, backend, model_session,
                   pending, in_try, task_result, model_io, commit_log,
                   open_sessions, db_failed>>

\* Lines 86-95: the join and the returned list.
RunJoin ==
    /\ UNCHANGED outside_arena
    /\ run_pc = "gather"
    /\ GatherDone(ReturnExceptions)
    /\ LET g == gather(ReturnExceptions)
       IN IF g.raised
          THEN /\ run_pc' = "raised"
               /\ UNCHANGED run_result
          ELSE /\ run_pc' = "returned"
               /\ run_result' = collect(g.results)
    /\ UNCHANGED <<api_keys, decision_harness, harness_id, backend, available_models,
                   task_pc, model_session, pending, in_try, task_result, model_io,
                   commit_log, open_sessions, db_failed>>

ArenaInit ==
    /\ api_keys \in SUBSET ApiKeyAttrs
    /\ decision_harness = {"h1"}
    /\ harness_id \in {"h1", "h0"}
    /\ backend \in [Catalog -> AdapterOutcomes \cup {Uncalled}]
    /\ \A m \in Catalog : backend[m] = Uncalled <=> ARENA_MODELS[m].api_key_attr \notin api_keys
    /\ run_pc = "start"
    /\ available_models = <<>>
    /\ run_result = <<>>
    /\ task_pc = [m \in Catalog |-> "idle"]
    /\ model_session = [m \in Catalog |-> NoSession]
    /\ pending = [m \in Catalog |-> NoRecord]
    /\ in_try = [m \in Catalog |-> FALSE]
    /\ task_result = [m \in Catalog |-> NoResult]
    /\ model_io = {}
    /\ commit_log = {}
    /\ open_sessions = {CallerSession}
    /\ db_failed = FALSE

ArenaNext ==
    \/ RunStart
    \/ RunJoin
    \/ \E m \in Catalog : Acquire(m) \/ CallModel(m) \/ Commit(m) \/ Refresh(m)

(***************************************************************************)
(* The parser applied to one raw text.                                     *)
(***************************************************************************)
\* The three texts of the specification's examples and texts that reach each
\* tier through a fenced block.
SampleTexts ==
    { <<FenceJson, Sp, "{", "'action'", ":", "'buy'", ",", "'confidence'", ":", "7", ".", "7", "}", Sp, Fence>>,
      <<"Action", ":", Sp, "buy", ",", Sp, "confidence", "=", "7", ".", "7">>,
      <<"HOLD", Sp, "buy", Sp, "HOLD", ".">>,
      <<FenceJson, Sp, "[", "7", "]", Sp, Fence>>,
      <<FenceJson, Sp, "{", "'action'", ":", Fence, Sp, "action", "=", "HOLD">>,
      <<FenceJson, "{", "}", Fence, Sp, "action", ":", "buy">>,
      <<"{", "'confidence'", ":", "7", ".", ".", "7", "}">> }

ParseInputs == SeqsUpTo(Lexemes, MaxLen) \cup SampleTexts

NoOutput == Raises("pending")

ParseInit ==
    /\ raw \in ParseInputs
    /\ parse_pc = "input"
    /\ parse_out = NoOutput

\* output_structured = self._parse_structured_output(output_raw)
Parse ==
    /\ parse_pc = "input"
    /\ parse_out' = parse_structured_output(raw)
    /\ parse_pc' = "parsed"
    /\ UNCHANGED raw
    /\ UNCHANGED outside_parse

(***************************************************************************)
(* approve_decision (POST /decisions/{harness_id}/approve).                *)
(***************************************************************************)
Symbols == {"SPY", "QQQ", "VTI", "IWM"}

\* A key the allocation dict does not have.
Absent == "<absent>"

\* alloc.get("etf", alloc.get("symbol", ""))
AllocSymbol(a) ==
    IF a.etf # Absent THEN a.etf
    ELSE IF a.symbol # Absent THEN a.symbol
    ELSE ""

AllocForms ==
    {[etf |-> s, symbol |-> Absent] : s \in Symbols}
        \cup {[etf |-> Absent, symbol |-> "IWM"], [etf |-> Absent, symbol |-> Absent]}

Amounts == {0, 10}

AllocChoices ==
    {[etf |-> f.etf, symbol |-> f.symbol, amount |-> n] : f \in AllocForms, n \in Amounts}

Requests ==
    [user : BOOLEAN, code_valid : BOOLEAN, allocations : SeqsUpTo(AllocChoices, MaxAllocs)]

PositionSets == { {}, {"SPY"}, {"SPY", "QQQ"}, {"SPY", "QQQ", "VTI"} }

\* The broker client answers the position query, or _require_client raises an
\* HTTPException, or the client or the query raises anything else.
BrokerAnswers == {"ok", "http_error", "error"}

\* {a.get("etf", a.get("symbol", "")) for a in allocations}
new_symbols(allocations) == {AllocSymbol(allocations[i]) : i \in 1..Len(allocations)}

PositionLimitRaised(combined) == Cardinality(combined) > 4

\* len(combined) > 3
PositionLimitExceeded(combined) == Cardinality(combined) > 3

ExecutionResult(symbol, amount, status) ==
    [symbol |-> symbol, amount |-> amount, status |-> status]

ApproveInit ==
    /\ positions \in PositionSets
    /\ snb_totp_secret \in BOOLEAN
    /\ broker \in BrokerAnswers
    /\ request \in Requests
    /\ request.user => snb_totp_secret
    /\ approve_pc = "start"
    /\ position_checked = FALSE
    /\ next_alloc = 0
    /\ execution_results = <<>>
    /\ order_calls = <<>>
    /\ decision_log = <<>>

verify_totp_unconfigured_passes(req, secret) ==
    IF ~req.user /\ ~secret THEN "authorized"
    ELSE IF ~req.code_valid THEN "403_invalid"
    ELSE "authorized"

\* Lines 403-414: where the request stands after the TOTP check.
verify_totp(req, secret) ==
    IF ~req.user /\ ~secret THEN "403_not_configured"
    ELSE IF ~req.code_valid THEN "403_invalid"
    ELSE "authorized"

\* Lines 398-414: the TOTP check, through the TOTP service for a signed-in user
\* and against settings.snb_totp_secret otherwise.
VerifyTotp ==
    /\ approve_pc = "start"
    /\ approve_pc' = verify_totp(request, snb_totp_secret)
    /\ UNCHANGED <<positions, snb_totp_secret, broker, request, position_checked,
                   next_alloc, execution_results, order_calls, decision_log>>
    /\ UNCHANGED outside_approve

\* Lines 417-430 and 457-461: with allocations, the position query and the
\* position-count check; an HTTPException is raised on, any other exception
\* becomes one "skipped" execution result.
CheckPositions ==
    /\ approve_pc = "authorized"
    /\ IF request.allocations = <<>>
       THEN /\ approve_pc' = "logging"
            /\ UNCHANGED <<position_checked, next_alloc, execution_results>>
       ELSE IF broker = "http_error"
       THEN /\ approve_pc' = "http_error"
            /\ UNCHANGED <<position_checked, next_alloc, execution_results>>
       ELSE IF broker = "error"
       THEN /\ approve_pc' = "logging"
            /\ execution_results' = <<ExecutionResult("", 0, "skipped")>>
            /\ UNCHANGED <<position_checked, next_alloc>>
       ELSE /\ position_checked' = TRUE
            /\ IF PositionLimitExceeded(positions \cup new_symbols(request.allocations))
               THEN /\ approve_pc' = "400_position_limit"
                    /\ UNCHANGED next_alloc
               ELSE /\ approve_pc' = "ordering"
                    /\ next_alloc' = 1
            /\ UNCHANGED execution_results
    /\ UNCHANGED <<positions, snb_totp_secret, broker, request, order_calls, decision_log>>
    /\ UNCHANGED outside_approve

OrderableWithSymbol(etf, amount) == etf # ""

\* Line 436: not (not etf or amount <= 0).
Orderable(etf, amount) == etf # "" /\ amount > 0

\* Lines 433-456: one turn of the order loop.  An allocation without symbol or
\* with a non-positive amount is passed over; otherwise place_order is called
\* and its result, or its exception, becomes an execution result.
PlaceOrder ==
    /\ approve_pc = "ordering"
    /\ next_alloc <= Len(request.allocations)
    /\ LET alloc == request.allocations[next_alloc]
           etf == AllocSymbol(alloc)
           amount == alloc.amount
       IN IF ~Orderable(etf, amount)
          THEN UNCHANGED <<execution_results, order_calls>>
          ELSE \E accepted \in BOOLEAN :
                  /\ order_calls' = Append(order_calls, [symbol |-> etf, quantity |-> amount])
                  /\ execution_results' =
                        Append(execution_results,
                               ExecutionResult(etf, amount,
                                               IF accepted THEN "submitted" ELSE "error"))
    /\ next_alloc' = next_alloc + 1
    /\ UNCHANGED <<positions, snb_totp_secret, broker, request, approve_pc,
                   position_checked, decision_log>>
    /\ UNCHANGED outside_approve

\* Lines 463-471: decision_service.create_log(user_action="approved", ...).
CreateLog ==
    /\ \/ approve_pc = "logging"
       \/ approve_pc = "ordering" /\ next_alloc > Len(request.allocations)
    /\ decision_log' =
          Append(decision_log,
                 [harness_id |-> "h1", user_action |-> "approved",
                  executed_allocations |-> request.allocations,
                  execution_results |-> execution_results])
    /\ approve_pc' = "done"
    /\ UNCHANGED <<positions, snb_totp_secret, broker, request, position_checked,
                   next_alloc, execution_results, order_calls>>
    /\ UNCHANGED outside_approve

(***************************************************************************)
(* The schedule table (SchedulerService).                                  *)
(***************************************************************************)
TaskIds == 1..MaxTasks

TaskTypes == {"arena_analysis", "price_update"}

ScheduleTask(task_type, cron_expression, is_enabled, next_run_at, last_run_at, last_run_status) ==
    [task_type |-> task_type, cron_expression |-> cron_expression,
     is_enabled |-> is_enabled, next_run_at |-> next_run_at,
     last_run_at |-> last_run_at, last_run_status |-> last_run_status]

\* The cron expression of the default task of a type (DEFAULT_SCHEDULES).
DefaultCron(task_type) == IF task_type = "price_update" THEN "0 5 * * *" ELSE "0 9 1 * *"

\* Times are whole ticks; -1 stands for a column that is NULL.
Never == -1

\* SchedulerService.get_task: the row, or None when no row has the id.
NoTask == ScheduleTask(Null, Null, FALSE, Never, Never, Null)

get_task(task_id) == IF task_id \in DOMAIN schedule_task THEN schedule_task[task_id] ELSE NoTask

\* SchedulerService.update_run_status: the table after the call.
update_run_status(task_id, status) ==
    IF task_id \in DOMAIN schedule_task
    THEN [schedule_task EXCEPT ![task_id].last_run_at = now,
                               ![task_id].last_run_status = status]
    ELSE schedule_task

\* A task that has never run, and one whose last run succeeded at tick 0.
PriorTasks(task_type) ==
    {ScheduleTask(task_type, DefaultCron(task_type), TRUE, Never, Never, Null),
     ScheduleTask(task_type, DefaultCron(task_type), TRUE, Never, 0, "success")}

SchedOff ==
    /\ schedule_task = [t \in TaskIds |->
                           ScheduleTask("price_update", DefaultCron("price_update"), TRUE,
                                        Never, Never, Null)]
    /\ now = 0

(***************************************************************************)
(* trigger_schedule for a price_update task: DataService.robust_update_all *)
(* and the run status derived from its result.                             *)
(***************************************************************************)
max_retries == 3

WatchSeq == <<"SPY", "QQQ", "VTI", "IWM">>

WatchSymbols == Range(WatchSeq)

FetchAnswers == {"ok", "error"}

\* "down": every query raises; "flaky": the first query for the symbol raises.
DbAnswers == {"up", "down", "flaky"}

BackfillActions == {"initial_load", "backfill", "up_to_date"}

EmptyResults ==
    [success |-> <<>>, failed |-> <<>>, backfilled |-> <<>>, anomalies |-> <<>>,
     total_records |-> 0]

NoResponse == [success |-> FALSE, status |-> Null]

\* session.execute(query) for the n-th price query of a symbol raises.
QueryRaises(symbol, n) == db[symbol] = "down" \/ (db[symbol] = "flaky" /\ n = 1)

\* fetch_and_store_history: the number of rows stored.  A failing request is
\* caught (lines 251-254) and gives 0.
fetch_and_store_history(symbol) == IF fetch[symbol] = "ok" THEN 1 ELSE 0

StatusAnomaliesFirst(r) ==
    IF Len(r.anomalies) > 0 THEN "success_with_warnings"
    ELSE IF Len(r.failed) > 0 THEN "partial_failure"
    ELSE "success"

\* Lines 662-672 of trigger_schedule.
RunStatus(r) ==
    IF Len(r.failed) > 0 THEN "partial_failure"
    ELSE IF Len(r.anomalies) > 0 THEN "success_with_warnings"
    ELSE "success"

PriceInit ==
    /\ \E n \in 0..MaxSymbols : watchlist = SubSeq(WatchSeq, 1, n)
    /\ fetch \in [Range(watchlist) -> FetchAnswers]
    /\ db \in [Range(watchlist) -> DbAnswers]
    /\ price_config \in [validate : BOOLEAN, backfill : BOOLEAN]
    /\ gap \in [Range(watchlist) -> IF price_config.backfill THEN BackfillActions
                                      ELSE {"up_to_date"}]
    /\ jumpy \in IF price_config.validate THEN SUBSET Range(watchlist) ELSE {{}}
    /\ price_task_id \in TaskIds \cup {MaxTasks + 1}
    /\ price_pc = "start"
    /\ sym_idx = 0
    /\ attempt = 0
    /\ queries = 0
    /\ price_results = EmptyResults
    /\ price_response = NoResponse
    /\ \E prior \in PriorTasks("price_update") : schedule_task = [t \in TaskIds |-> prior]
    /\ now = 1

\* Lines 598-600 and 653, then lines 377-387 of robust_update_all.
PriceStart ==
    /\ price_pc = "start"
    /\ IF get_task(price_task_id) = NoTask
       THEN price_pc' = "404"
       ELSE price_pc' = "symbol"
    /\ sym_idx' = 1
    /\ UNCHANGED <<watchlist, fetch, db, gap, jumpy, price_config, price_task_id,
                   attempt, queries, price_results, price_response, sched_vars>>
    /\ UNCHANGED outside_price

AfterBackfillUpdate == "retry"

\* Line 402: continue, on to the next symbol.
AfterBackfill == "symbol"

\* Lines 389-402: smart_backfill for the symbol, when backfill is enabled.
SmartBackfill ==
    /\ price_pc = "symbol"
    /\ sym_idx <= Len(watchlist)
    /\ LET symbol == watchlist[sym_idx]
       IN IF ~price_config.backfill
          THEN /\ price_pc' = "retry"
               /\ UNCHANGED <<sym_idx, queries, price_results>>
          ELSE IF QueryRaises(symbol, queries + 1)
          THEN /\ price_pc' = "raised"
               /\ queries' = queries + 1
               /\ UNCHANGED <<sym_idx, price_results>>
          ELSE IF gap[symbol] = "backfill"
          THEN /\ price_results' =
                     [price_results EXCEPT
                        !.backfilled = Append(@, [symbol |-> symbol,
                                                  records |-> fetch_and_store_history(symbol)]),
                        !.total_records = @ + fetch_and_store_history(symbol)]
               /\ price_pc' = AfterBackfill
               /\ sym_idx' = IF AfterBackfill = "symbol" THEN sym_idx + 1 ELSE sym_idx
               /\ queries' = 0
          ELSE /\ price_pc' = "retry"
               /\ queries' = queries + 1
               /\ UNCHANGED <<sym_idx, price_results>>
    /\ attempt' = 0
    /\ UNCHANGED <<watchlist, fetch, db, gap, jumpy, price_config, price_task_id,
                   price_response, sched_vars>>
    /\ UNCHANGED outside_price

\* One turn of the loop of incremental_update_with_retry (lines 284-295) and
\* lines 407-414 of robust_update_all for its result.
Attempt ==
    /\ price_pc = "retry"
    /\ attempt < max_retries
    /\ LET symbol == watchlist[sym_idx]
       IN IF QueryRaises(symbol, queries + 1)
          THEN IF attempt + 1 < max_retries
               THEN /\ attempt' = attempt + 1
                    /\ queries' = queries + 1
                    /\ UNCHANGED <<price_pc, sym_idx, price_results>>
               ELSE /\ price_results' =
                          [price_results EXCEPT !.failed = Append(@, [symbol |-> symbol])]
                    /\ price_pc' = "symbol"
                    /\ sym_idx' = sym_idx + 1
                    /\ attempt' = 0
                    /\ queries' = 0
          ELSE /\ price_results' =
                     [price_results EXCEPT
                        !.success = Append(@, symbol),
                        !.total_records = @ + fetch_and_store_history(symbol)]
               /\ attempt' = 0
               /\ IF price_config.validate
                  THEN /\ price_pc' = "validate"
                       /\ queries' = queries + 1
                       /\ UNCHANGED sym_idx
                  ELSE /\ price_pc' = "symbol"
                       /\ sym_idx' = sym_idx + 1
                       /\ queries' = 0
    /\ UNCHANGED <<watchlist, fetch, db, gap, jumpy, price_config, price_task_id,
                   price_response, sched_vars>>
    /\ UNCHANGED outside_price

\* Lines 417-420: validate_prices for a symbol whose update succeeded.
ValidatePrices ==
    /\ price_pc = "validate"
    /\ LET symbol == watchlist[sym_idx]
       IN IF QueryRaises(symbol, queries + 1)
          THEN /\ price_pc' = "raised"
               /\ UNCHANGED <<sym_idx, price_results>>
          ELSE /\ price_results' =
                     IF symbol \in jumpy
                     THEN [price_results EXCEPT !.anomalies = Append(@, [symbol |-> symbol])]
                     ELSE price_results
               /\ price_pc' = "symbol"
               /\ sym_idx' = sym_idx + 1
    /\ queries' = 0
    /\ UNCHANGED <<watchlist, fetch, db, gap, jumpy, price_config, price_task_id,
                   attempt, price_response, sched_vars>>
    /\ UNCHANGED outside_price

\* Lines 662-686: the status of the run, stored with update_run_status and
\* returned.
PriceFinish ==
    /\ price_pc = "symbol"
    /\ sym_idx > Len(watchlist)
    /\ LET status == RunStatus(price_results)
       IN /\ schedule_task' = update_run_status(price_task_id, status)
          /\ price_response' = [success |-> Len(price_results.failed) = 0, status |-> status]
    /\ price_pc' = "done"
    /\ UNCHANGED <<watchlist, fetch, db, gap, jumpy, price_config, price_task_id,
                   sym_idx, attempt, queries, price_results, now>>
    /\ UNCHANGED outside_price

PriceOff ==
    /\ watchlist = <<>>
    /\ fetch = <<>>
    /\ db = <<>>
    /\ gap = <<>>
    /\ jumpy = {}
    /\ price_config = [validate |-> TRUE, backfill |-> TRUE]
    /\ price_task_id = 1
    /\ price_pc = "off"
    /\ sym_idx = 0
    /\ attempt = 0
    /\ queries = 0
    /\ price_results = EmptyResults
    /\ price_response = NoResponse

(***************************************************************************)
(* run_arena and trigger_schedule for an arena_analysis task: two requests *)
(* at once, each building a harness, running the Arena on it and updating  *)
(* the scores.                                                             *)
(***************************************************************************)
\* The arena variables these handlers leave at rest.
arena_run_vars ==
    <<harness_id, run_pc, available_models, run_result, task_pc, model_session,
      pending, in_try, task_result, commit_log, open_sessions, db_failed>>

Triggers == {1, 2}

\* The credentials that may be configured while the two requests run: those of
\* the first two catalog models.
TriggerKeys == {ARENA_MODELS[m].api_key_attr : m \in {c \in Catalog : c <= 2}}

\* HarnessBuilder.build persists a new DecisionHarness row and returns it; the
\* id is a fresh uuid.
HarnessIds == <<"h1", "h2">>

NewHarnessId == HarnessIds[Cardinality(decision_harness) + 1]

NoHarness == "none"

\* The harness most recently persisted, whoever built it.
LatestHarness(r) ==
    IF decision_harness = {} THEN NoHarness ELSE HarnessIds[Cardinality(decision_harness)]

\* harness_id=harness_id at lines 79 and 172, 196, 213: the id the handler got
\* from its own build.
RecordHarness(r) == trig_harness[r]

\* The ModelIO a task of request r builds for model m.
TaskIO(r, m, has_base_url) ==
    [InvokeOutcome(m, has_base_url) EXCEPT !.id = <<r, m>>, !.harness_id = RecordHarness(r)]

TrigLaunched(r) == IF trig_pc[r] = "gather" THEN Range(AvailableModels) ELSE {}

JoinsFirst(r) == \E m \in Range(AvailableModels) : trig_tasks[r][m] # NoResult

\* await asyncio.gather(*tasks, return_exceptions=True): every task has ended.
Joined(r) == \A m \in Range(AvailableModels) : trig_tasks[r][m] # NoResult

ParticipatesAlways(mio) == TRUE

\* if mio.get("status") == "success" (lines 288 and 616).
Participates(mio) == mio.status = "success"

TriggerInit ==
    /\ trig_kind \in [Triggers -> {"manual", "task"}]
    /\ trig_task_id \in TaskIds \cup {MaxTasks + 1}
    /\ trig_pc = [r \in Triggers |-> "start"]
    /\ build_calls = [r \in Triggers |-> 0]
    /\ run_calls = [r \in Triggers |-> 0]
    /\ trig_harness = [r \in Triggers |-> NoHarness]
    /\ trig_tasks = [r \in Triggers |-> [m \in Catalog |-> NoResult]]
    /\ trig_models = [r \in Triggers |-> <<>>]
    /\ score_idx = [r \in Triggers |-> 0]
    /\ score_calls = <<>>
    /\ \E prior \in PriorTasks("arena_analysis") : schedule_task = [t \in TaskIds |-> prior]
    /\ now = 1
    /\ api_keys \in SUBSET TriggerKeys
    /\ backend = [m \in Catalog |->
                    IF ARENA_MODELS[m].api_key_attr \in api_keys
                    THEN CHOOSE t \in ArenaTexts : TRUE ELSE Uncalled]
    /\ decision_harness = {}
    /\ model_io = {}
    /\ harness_id = "h1"
    /\ run_pc = "off"
    /\ available_models = <<>>
    /\ run_result = <<>>
    /\ task_pc = [m \in Catalog |-> "idle"]
    /\ model_session = [m \in Catalog |-> NoSession]
    /\ pending = [m \in Catalog |-> NoRecord]
    /\ in_try = [m \in Catalog |-> FALSE]
    /\ task_result = [m \in Catalog |-> NoResult]
    /\ commit_log = {}
    /\ open_sessions = {CallerSession}
    /\ db_failed = FALSE

\* trigger_schedule lines 598-612, run_arena lines 274-281: the task lookup
\* (for a trigger) and builder.build, which persists the harness or raises.
BuildHarness(r) ==
    /\ trig_pc[r] = "start"
    /\ IF trig_kind[r] = "task" /\ get_task(trig_task_id) = NoTask
       THEN /\ trig_pc' = [trig_pc EXCEPT ![r] = "404"]
            /\ UNCHANGED <<build_calls, trig_harness, decision_harness>>
       ELSE /\ build_calls' = [build_calls EXCEPT ![r] = @ + 1]
            /\ \E built \in BOOLEAN :
                  IF built
                  THEN /\ decision_harness' = decision_harness \cup {NewHarnessId}
                       /\ trig_harness' = [trig_harness EXCEPT ![r] = NewHarnessId]
                       /\ trig_pc' = [trig_pc EXCEPT ![r] = "built"]
                  ELSE /\ trig_pc' = [trig_pc EXCEPT ![r] = "raised"]
                       /\ UNCHANGED <<trig_harness, decision_harness>>
    /\ UNCHANGED <<trig_kind, trig_task_id, run_calls, trig_tasks, trig_models,
                   score_idx, score_calls, sched_vars, api_keys, backend, model_io>>
    /\ UNCHANGED arena_run_vars
    /\ UNCHANGED outside_trigger

\* arena_service.run(harness["id"], session), lines 46-84 of run: the harness
\* lookup, which may raise, the catalog filter and the tasks.
StartRun(r) ==
    /\ trig_pc[r] = "built"
    /\ run_calls' = [run_calls EXCEPT ![r] = @ + 1]
    /\ \E answered \in BOOLEAN :
          IF ~answered \/ trig_harness[r] \notin decision_harness
          THEN /\ trig_pc' = [trig_pc EXCEPT ![r] = "raised"]
               /\ UNCHANGED score_idx
          ELSE IF AvailableModels = <<>>
          THEN /\ trig_pc' = [trig_pc EXCEPT ![r] = "scoring"]
               /\ score_idx' = [score_idx EXCEPT ![r] = 1]
          ELSE /\ trig_pc' = [trig_pc EXCEPT ![r] = "gather"]
               /\ UNCHANGED score_idx
    /\ UNCHANGED <<trig_kind, trig_task_id, build_calls, trig_harness, trig_tasks,
                   trig_models, score_calls, sched_vars, api_keys, backend,
                   decision_harness, model_io>>
    /\ UNCHANGED arena_run_vars
    /\ UNCHANGED outside_trigger

\* _call_model of request r for model m, from its session to its return: the
\* record is committed and returned, or the commit raises (no row), or the
\* refresh raises after the commit (row, no dict).
InvokeModel(r, m) ==
    /\ trig_pc[r] = "gather"
    /\ m \in Range(AvailableModels)
    /\ trig_tasks[r][m] = NoResult
    /\ \E has_base_url \in (IF ARENA_MODELS[m].provider = "google" THEN BOOLEAN ELSE {TRUE}),
          outcome \in {"returned", "commit_raises", "refresh_raises"} :
          LET io == TaskIO(r, m, has_base_url)
          IN /\ model_io' = IF outcome = "commit_raises" THEN model_io ELSE model_io \cup {io}
             /\ trig_tasks' =
                   [trig_tasks EXCEPT ![r][m] =
                       IF outcome = "returned" THEN Returned(to_dict(io)) ELSE Raised(outcome)]
    /\ UNCHANGED <<trig_kind, trig_task_id, trig_pc, build_calls, run_calls, trig_harness,
                   trig_models, score_idx, score_calls, sched_vars, api_keys, backend,
                   decision_harness>>
    /\ UNCHANGED arena_run_vars
    /\ UNCHANGED outside_trigger

\* Lines 86-95 of run: the join and the list it returns to the handler.
JoinRun(r) ==
    /\ trig_pc[r] = "gather"
    /\ Joined(r)
    /\ trig_models' =
          [trig_models EXCEPT ![r] =
              collect([i \in 1..Len(AvailableModels) |-> trig_tasks[r][AvailableModels[i]]])]
    /\ trig_pc' = [trig_pc EXCEPT ![r] = "scoring"]
    /\ score_idx' = [score_idx EXCEPT ![r] = 1]
    /\ UNCHANGED <<trig_kind, trig_task_id, build_calls, run_calls, trig_harness,
                   trig_tasks, score_calls, sched_vars, api_keys, backend,
                   decision_harness, model_io>>
    /\ UNCHANGED arena_run_vars
    /\ UNCHANGED outside_trigger

\* One turn of the loop at lines 287-292 / 615-620.
ScoreStep(r) ==
    /\ trig_pc[r] = "scoring"
    /\ score_idx[r] <= Len(trig_models[r])
    /\ LET mio == trig_models[r][score_idx[r]]
       IN score_calls' =
             IF Participates(mio)
             THEN Append(score_calls, [request |-> r, id |-> mio.id,
                                       model_provider |-> mio.model_provider,
                                       model_name |-> mio.model_name])
             ELSE score_calls
    /\ score_idx' = [score_idx EXCEPT ![r] = @ + 1]
    /\ UNCHANGED <<trig_kind, trig_task_id, trig_pc, build_calls, run_calls, trig_harness,
                   trig_tasks, trig_models, sched_vars, api_keys, backend,
                   decision_harness, model_io>>
    /\ UNCHANGED arena_run_vars
    /\ UNCHANGED outside_trigger

\* Line 622 of trigger_schedule (update_run_status) and the response; run_arena
\* has no task to update.
FinishTrigger(r) ==
    /\ trig_pc[r] = "scoring"
    /\ score_idx[r] > Len(trig_models[r])
    /\ schedule_task' =
          IF trig_kind[r] = "task"
          THEN update_run_status(trig_task_id, "pending_user_action")
          ELSE schedule_task
    /\ trig_pc' = [trig_pc EXCEPT ![r] = "done"]
    /\ UNCHANGED <<trig_kind, trig_task_id, build_calls, run_calls, trig_harness,
                   trig_tasks, trig_models, score_idx, score_calls, now, api_keys,
                   backend, decision_harness, model_io>>
    /\ UNCHANGED arena_run_vars
    /\ UNCHANGED outside_trigger

TriggerOff ==
    /\ trig_kind = [r \in Triggers |-> "manual"]
    /\ trig_task_id = 1
    /\ trig_pc = [r \in Triggers |-> "off"]
    /\ build_calls = [r \in Triggers |-> 0]
    /\ run_calls = [r \in Triggers |-> 0]
    /\ trig_harness = [r \in Triggers |-> NoHarness]
    /\ trig_tasks = [r \in Triggers |-> [m \in Catalog |-> NoResult]]
    /\ trig_models = [r \in Triggers |-> <<>>]
    /\ score_idx = [r \in Triggers |-> 0]
    /\ score_calls = <<>>

(***************************************************************************)
(* lifespan: reloading the index schedules at process start.               *)
(***************************************************************************)
\* Time in hours since a midnight.  The expressions: every day at 05:00, every
\* hour, and a text croniter rejects; create_task and update_task store
\* whatever text they are given.
CronExpressions == {"0 5 * * *", "0 * * * *", "every day"}

CronValid(expr) == expr \in {"0 5 * * *", "0 * * * *"}

\* croniter(expr, t).get_next(datetime): the first matching time after t.
get_next(expr, t) ==
    IF expr = "0 * * * *" THEN t + 1
    ELSE IF t % 24 < 5 THEN t - (t % 24) + 5
    ELSE t - (t % 24) + 29

\* SchedulerService.get_enabled_tasks: the enabled rows, in creation order.
get_enabled_tasks == SelectSeq([t \in TaskIds |-> t], LAMBDA t : schedule_task[t].is_enabled)

\* SchedulerService.compute_next_run: the next_run_at the row holds after the
\* call.  A missing croniter, an expression croniter rejects and a failing
\* commit are all caught (lines 176-181) and leave the stored value.
compute_next_run(t, committed) ==
    IF croniter_installed /\ CronValid(schedule_task[t].cron_expression) /\ committed
    THEN get_next(schedule_task[t].cron_expression, now)
    ELSE schedule_task[t].next_run_at

StartupInit ==
    /\ environment \in {"test", "production"}
    /\ croniter_installed \in BOOLEAN
    /\ db_reachable \in BOOLEAN
    /\ start_pc = "starting"
    /\ enabled = <<>>
    /\ start_idx = 0
    /\ now \in {3, 30}
    /\ schedule_task \in
          [TaskIds -> {ScheduleTask("arena_analysis", c, e, n, Never, Null) :
                          c \in CronExpressions, e \in BOOLEAN, n \in {Never, 1, 53}}]

\* main.py lines 41-46: outside the test environment, open a session and read
\* the enabled tasks; any exception is logged and startup goes on (50-51).
LoadSchedules ==
    /\ start_pc = "starting"
    /\ IF environment = "test" \/ ~db_reachable
       THEN /\ start_pc' = "started"
            /\ UNCHANGED <<enabled, start_idx>>
       ELSE /\ start_pc' = "loading"
            /\ enabled' = get_enabled_tasks
            /\ start_idx' = 1
    /\ UNCHANGED <<environment, croniter_installed, db_reachable, sched_vars>>
    /\ UNCHANGED outside_startup

\* main.py lines 47-48: compute_next_run for the next enabled task.
ComputeNextRun ==
    /\ start_pc = "loading"
    /\ start_idx <= Len(enabled)
    /\ \E committed \in BOOLEAN :
          schedule_task' =
              [schedule_task EXCEPT ![enabled[start_idx]].next_run_at =
                  compute_next_run(enabled[start_idx], committed)]
    /\ start_idx' = start_idx + 1
    /\ UNCHANGED <<environment, croniter_installed, db_reachable, start_pc, enabled, now>>
    /\ UNCHANGED outside_startup

\* main.py lines 49 and 53: the loop has ended; the application starts serving.
StartupDone ==
    /\ start_pc = "loading"
    /\ start_idx > Len(enabled)
    /\ start_pc' = "started"
    /\ UNCHANGED <<environment, croniter_installed, db_reachable, enabled, start_idx,
                   sched_vars>>
    /\ UNCHANGED outside_startup

StartupOff ==
    /\ environment = "production"
    /\ croniter_installed = TRUE
    /\ db_reachable = TRUE
    /\ start_pc = "off"
    /\ enabled = <<>>
    /\ start_idx = 0

(***************************************************************************)
(* adopt_model, skip_decision and reject_decision, next to an Arena run    *)
(* and an approve request on the same stored harnesses.                    *)
(***************************************************************************)
\* The approve variables skip and reject leave alone.
approve_rest ==
    <<positions, snb_totp_secret, broker, request, approve_pc, position_checked,
      next_alloc, execution_results, order_calls>>

\* A DecisionHarness row.
DecisionHarness(harness_type, created_at, market_snapshot, account_state, memory_summary, task, prompt_version_id) ==
    [harness_type |-> harness_type, created_at |-> created_at,
     market_snapshot |-> market_snapshot, account_state |-> account_state,
     memory_summary |-> memory_summary, task |-> task,
     prompt_version_id |-> prompt_version_id]

StoredHarnesses ==
    [h \in {"h1", "h2"} |->
        DecisionHarness(IF h = "h1" THEN "monthly_dca" ELSE "weekly_check", 1,
                        <<>>, None, None, None, "pv1")]

\* A row an earlier run wrote for harness h2.
EarlierRow ==
    [id |-> <<0, 1>>, harness_id |-> "h2", model_provider |-> "openai",
     model_name |-> "gpt-4o", status |-> "error",
     error_message |-> [text |-> "TypeError", seconds |-> 0],
     output_raw |-> None, output_structured |-> None, parse_status |-> Null]

NoModelIO == [id |-> <<0, 0>>, harness_id |-> Null]

\* ArenaService.get_model_io_detail: the row with the id, or None.
get_model_io_detail(model_io_id) ==
    IF \E row \in model_io : row.id = model_io_id
    THEN CHOOSE row \in model_io : row.id = model_io_id
    ELSE NoModelIO

HarnessMarkedAdopted(store, h) == [store EXCEPT ![h].harness_type = "adopted"]

\* What adopt_model leaves in the harness table: it reads harness.to_dict()
\* and harness.prompt_version_id (lines 736-743) and assigns nothing.
HarnessAfterAdopt(store, h) == store

DecideInit ==
    /\ harness_store = StoredHarnesses
    /\ adopt_request \in [harness_id : {"h1", "h0"}, model_io_id : {<<0, 1>>, <<1, 1>>, <<9, 9>>}]
    /\ adopt_pc = "start"
    /\ adoption_calls = {}
    /\ decide_request \in [action : {"skipped", "rejected"}, harness_id : {"h1"}]
    /\ decide_pc = "start"
    /\ api_keys \in SUBSET {ARENA_MODELS[1].api_key_attr}
    /\ decision_harness = DOMAIN StoredHarnesses
    /\ harness_id = "h1"
    /\ backend = [m \in Catalog |->
                    IF ARENA_MODELS[m].api_key_attr \in api_keys
                    THEN CHOOSE t \in ArenaTexts : TRUE ELSE Uncalled]
    /\ run_pc = "start"
    /\ available_models = <<>>
    /\ run_result = <<>>
    /\ task_pc = [m \in Catalog |-> "idle"]
    /\ model_session = [m \in Catalog |-> NoSession]
    /\ pending = [m \in Catalog |-> NoRecord]
    /\ in_try = [m \in Catalog |-> FALSE]
    /\ task_result = [m \in Catalog |-> NoResult]
    /\ model_io = {EarlierRow}
    /\ commit_log = {}
    /\ open_sessions = {CallerSession}
    /\ db_failed = FALSE
    /\ positions = {"SPY"}
    /\ snb_totp_secret = TRUE
    /\ broker \in {"ok", "error"}
    /\ request \in [user : {TRUE}, code_valid : {TRUE},
                    allocations : {<<>>, <<[etf |-> "QQQ", symbol |-> Absent, amount |-> 10]>>}]
    /\ approve_pc = "start"
    /\ position_checked = FALSE
    /\ next_alloc = 0
    /\ execution_results = <<>>
    /\ order_calls = <<>>
    /\ decision_log = <<>>

\* adopt_model, lines 724-746: the ModelIO by request.model_io_id, the harness
\* by the path's harness_id, the decision card, update_on_adoption.
AdoptModel ==
    /\ adopt_pc = "start"
    /\ LET mio == get_model_io_detail(adopt_request.model_io_id)
       IN IF mio = NoModelIO
          THEN /\ adopt_pc' = "404_model_io"
               /\ UNCHANGED <<harness_store, adoption_calls>>
          ELSE IF adopt_request.harness_id \notin decision_harness
          THEN /\ adopt_pc' = "404_harness"
               /\ UNCHANGED <<harness_store, adoption_calls>>
          ELSE /\ adopt_pc' = "adopted"
               /\ harness_store' = HarnessAfterAdopt(harness_store, adopt_request.harness_id)
               /\ adoption_calls' = adoption_calls \cup
                     {[harness_id |-> adopt_request.harness_id,
                       model_io_id |-> mio.id,
                       model_io_harness |-> mio.harness_id,
                       model_provider |-> mio.model_provider,
                       model_name |-> mio.model_name,
                       prompt_version_id |->
                           harness_store[adopt_request.harness_id].prompt_version_id]}
    /\ UNCHANGED <<adopt_request, decide_request, decide_pc, arena_vars, approve_vars>>
    /\ UNCHANGED outside_decide

\* skip_decision / reject_decision: one create_log call.
LogDecision(action) ==
    /\ decide_pc = "start"
    /\ decision_log' =
          Append(decision_log,
                 [harness_id |-> decide_request.harness_id, user_action |-> action,
                  executed_allocations |-> <<>>, execution_results |-> <<>>])
    /\ decide_pc' = "done"
    /\ UNCHANGED <<harness_store, adopt_request, adopt_pc, adoption_calls, decide_request,
                   arena_vars, approve_rest>>
    /\ UNCHANGED outside_decide

\* Lines 474-487.
SkipDecision ==
    /\ decide_request.action = "skipped"
    /\ LogDecision("skipped")

\* Lines 490-503.
RejectDecision ==
    /\ decide_request.action = "rejected"
    /\ LogDecision("rejected")

DecideOff ==
    /\ harness_store = StoredHarnesses
    /\ adopt_request = [harness_id |-> "h1", model_io_id |-> <<9, 9>>]
    /\ adopt_pc = "off"
    /\ adoption_calls = {}
    /\ decide_request = [action |-> "skipped", harness_id |-> "h1"]
    /\ decide_pc = "off"

(***************************************************************************)
(* ArenaService._serialize_harness and the prompt each task is given.      *)
(* A text is the sequence of its lines; a line is the sequence of its      *)
(* label and the values formatted into it.  The labels stand for the       *)
(* source's: date, harness_type, "=== market snapshot ===", symbol,        *)
(* "=== account ===", cash, total, position, "=== memory ===",             *)
(* decision, reflection, experience, "=== task ===", type, budget,         *)
(* constraints.                                                            *)
(***************************************************************************)
\* dict.get(key, default); None and {} both have no key.
get(d, key, default) == IF key \in DOMAIN d THEN d[key] ELSE default

\* content[:n]
Truncate(content, n) == [text |-> content.text, len |-> Min(content.len, n)]

NoContent == [text |-> "", len |-> 0]

\* A number formatted into an f-string.
Str(v) == ToString(v)

\* {d.get(key, default)} for a number under key and a default already text.
Format(d, key, default) == IF key \in DOMAIN d THEN Str(d[key]) ELSE default

Blank == <<"">>

\* Lines 265-270.
HeaderLines(harness) ==
    << <<"date", IF harness.created_at # 0 THEN Str(harness.created_at) ELSE "unknown">>,
       <<"harness_type", harness.harness_type>>,
       Blank,
       <<"=== market snapshot ===">> >>

\* Lines 271-276: one line per item of the dict, in the dict's order.
SnapshotLines(harness) ==
    [i \in 1..Len(harness.market_snapshot) |->
        LET symbol == harness.market_snapshot[i][1]
            data == harness.market_snapshot[i][2]
        IN <<"symbol", symbol, Format(data, "price", "N/A"), Format(data, "pe_ratio", "N/A"),
             Format(data, "ma50", "N/A"), Format(data, "rsi", "N/A")>>]

\* Lines 278-284.
AccountLines(harness) ==
    LET account == harness.account_state
        account_positions == get(account, "positions", <<>>)
    IN << Blank, <<"=== account ===">>,
          <<"cash", Format(account, "cash", "0")>>,
          <<"total", Format(account, "total", "0")>> >>
       \o [i \in 1..Len(account_positions) |->
              <<"position", get(account_positions[i], "symbol", "?"),
                Format(account_positions[i], "quantity", "0")>>]

DecisionChars == 100
ExperienceChars == 80

ContentLine(label, item, n) ==
    LET c == Truncate(get(item, "content", NoContent), n)
    IN <<label, c.text, Str(c.len)>>

\* Lines 286-295.
MemoryLines(harness) ==
    LET memory == harness.memory_summary
        recent_decisions == get(memory, "recent_decisions", <<>>)
        experiences == get(memory, "experiences", <<>>)
    IN << Blank, <<"=== memory ===">> >>
       \o [i \in 1..Len(recent_decisions) |->
              ContentLine("decision", recent_decisions[i], DecisionChars)]
       \o (IF "recent_reflection" \in DOMAIN memory
           THEN <<ContentLine("reflection", memory.recent_reflection, DecisionChars)>>
           ELSE <<>>)
       \o [i \in 1..Len(experiences) |->
              ContentLine("experience", experiences[i], ExperienceChars)]

\* Lines 297-304: budget and constraints are left out when falsy.
TaskLines(harness) ==
    LET task == harness.task
        constraints == get(task, "constraints", <<>>)
    IN << Blank, <<"=== task ===">>, <<"type", get(task, "type", "unknown")>> >>
       \o (IF get(task, "budget", 0) # 0
           THEN << <<"budget", Str(task.budget)>> >> ELSE <<>>)
       \o (IF constraints # <<>> THEN << <<"constraints">> \o constraints >> ELSE <<>>)

serialize_harness_account_first(harness) ==
    HeaderLines(harness) \o AccountLines(harness) \o SnapshotLines(harness)
        \o MemoryLines(harness) \o TaskLines(harness)

\* ArenaService._serialize_harness, lines 262-306.
serialize_harness(harness) ==
    HeaderLines(harness) \o SnapshotLines(harness) \o AccountLines(harness)
        \o MemoryLines(harness) \o TaskLines(harness)

SnapshotData ==
    [SPY |-> [price |-> 500, pe_ratio |-> 25, ma50 |-> 490, rsi |-> 55],
     QQQ |-> [pe_ratio |-> 30]]

\* The market_snapshot dicts: up to MaxSymbols of the symbols, in either
\* insertion order, and None.
MarketSnapshots ==
    {s \in UNION {[1..n -> {<<"SPY", SnapshotData.SPY>>, <<"QQQ", SnapshotData.QQQ>>}] :
                      n \in 0..Min(MaxSymbols, 2)} :
        \A i, j \in 1..Len(s) : i # j => s[i][1] # s[j][1]}

AccountStates ==
    {None,
     [cash |-> 500, total |-> 1500, positions |-> <<[symbol |-> "SPY", quantity |-> 2]>>],
     [total |-> 1500, positions |-> <<[quantity |-> 2]>>]}

MemorySummaries ==
    {None,
     [recent_decisions |-> <<[content |-> [text |-> "d1", len |-> 120]], [id |-> "d2"]>>,
      recent_reflection |-> [content |-> [text |-> "r1", len |-> 100]],
      experiences |-> <<[content |-> [text |-> "e1", len |-> 90]]>>],
     [recent_decisions |-> <<>>, experiences |-> <<[content |-> [text |-> "e2", len |-> 10]]>>]}

HarnessTasks ==
    {None,
     [type |-> "monthly_dca", budget |-> 1000, constraints |-> <<"max_single", "0.5">>],
     [type |-> "rebalance", budget |-> 0, constraints |-> <<>>]}

\* created_at 0 stands for None.
RenderHarnesses ==
    {DecisionHarness("monthly_dca", created_at, market_snapshot, account_state,
                     memory_summary, task, "pv1") :
        created_at \in {0, 20260301}, market_snapshot \in MarketSnapshots,
        account_state \in AccountStates, memory_summary \in MemorySummaries,
        task \in HarnessTasks}

Runs == {1, 2}

NoPrompt == <<>>

RenderModels == {m \in Catalog : ARENA_MODELS[m].api_key_attr \in render_keys}

RenderInit ==
    /\ render_harness \in RenderHarnesses
    /\ render_keys \in SUBSET TriggerKeys
    /\ render_pc = [r \in Runs |-> "start"]
    /\ user_prompt = [r \in Runs |-> NoPrompt]
    /\ task_prompt = [r \in Runs |-> [m \in Catalog |-> NoPrompt]]
    /\ full_input = [r \in Runs |-> [m \in Catalog |-> NoPrompt]]

\* Line 60.
SerializeHarness(r) ==
    /\ render_pc[r] = "start"
    /\ user_prompt' = [user_prompt EXCEPT ![r] = serialize_harness(render_harness)]
    /\ render_pc' = [render_pc EXCEPT ![r] = "serialized"]
    /\ UNCHANGED <<render_harness, render_keys, task_prompt, full_input>>
    /\ UNCHANGED outside_render

\* Lines 62-84: the credential filter, the early return, one task per model
\* with user_prompt=user_prompt.
CreateTasks(r) ==
    /\ render_pc[r] = "serialized"
    /\ IF RenderModels = {}
       THEN /\ render_pc' = [render_pc EXCEPT ![r] = "returned"]
            /\ UNCHANGED task_prompt
       ELSE /\ render_pc' = [render_pc EXCEPT ![r] = "gather"]
            /\ task_prompt' = [task_prompt EXCEPT ![r] =
                                  [m \in Catalog |-> IF m \in RenderModels
                                                     THEN user_prompt[r] ELSE NoPrompt]]
    /\ UNCHANGED <<render_harness, render_keys, user_prompt, full_input>>
    /\ UNCHANGED outside_render

\* Line 114: full_input in _call_model.
BuildInput(r, m) ==
    /\ render_pc[r] = "gather"
    /\ m \in RenderModels
    /\ full_input[r][m] = NoPrompt
    /\ full_input' = [full_input EXCEPT ![r][m] =
                         << <<"[System Prompt]">>, <<"system_prompt">>, Blank,
                            <<"[Decision Harness]">> >> \o task_prompt[r][m]]
    /\ UNCHANGED <<render_harness, render_keys, render_pc, user_prompt, task_prompt>>
    /\ UNCHANGED outside_render

RenderOff ==
    /\ render_harness = DecisionHarness("monthly_dca", 0, None, None, None, None, "pv1")
    /\ render_keys = {}
    /\ render_pc = [r \in Runs |-> "off"]
    /\ user_prompt = [r \in Runs |-> NoPrompt]
    /\ task_prompt = [r \in Runs |-> [m \in Catalog |-> NoPrompt]]
    /\ full_input = [r \in Runs |-> [m \in Catalog |-> NoPrompt]]

(***************************************************************************)
(* ArenaService._estimate_cost.  Rates are held in 1/1000 dollar per       *)
(* million tokens, so that every rate of the table is a whole number, and  *)
(* an estimate in 1/10000 dollar, the unit round(..., 4) rounds to.        *)
(***************************************************************************)
\* Lines 311-318.
rates ==
    [anthropic |-> [input |-> 3000, output |-> 15000],
     openai |-> [input |-> 2500, output |-> 10000],
     deepseek |-> [input |-> 140, output |-> 280],
     google |-> [input |-> 75, output |-> 300],
     qwen |-> [input |-> 800, output |-> 2000],
     minimax |-> [input |-> 1000, output |-> 3000]]

\* Line 319: rates.get(provider, {"input": 1.0, "output": 5.0}).
RateOf(provider) ==
    IF provider \in DOMAIN rates THEN rates[provider] ELSE [input |-> 1000, output |-> 5000]

\* One 1/10000 dollar in the unit of tokens * rate: 1000 * 1,000,000 / 10000.
CostUnit == 100000

\* round(x, 4) of x = n / (1000 * 1,000,000) dollars, n >= 0 or n < 0: the
\* nearest multiple of 1/10000, ties to the even one.
Round4(n) ==
    LET q == n \div CostUnit
        rem == n - q * CostUnit
    IN IF 2 * rem < CostUnit THEN q
       ELSE IF 2 * rem > CostUnit THEN q + 1
       ELSE IF q % 2 = 0 THEN q ELSE q + 1

estimate_cost_output_credited(provider, model, input_tokens, output_tokens) ==
    Round4(input_tokens * RateOf(provider).input - output_tokens * RateOf(provider).output)

\* Lines 309-323.
estimate_cost(provider, model, input_tokens, output_tokens) ==
    Round4(input_tokens * RateOf(provider).input + output_tokens * RateOf(provider).output)

CostProviders == DOMAIN rates \cup {"dashscope"}

CostModels == {"gpt-4o", "unlisted-model"}

InputTokens == {0, 1, 667, 40000}

OutputTokens == {0, 1, 3, 5, 10, 17, 167, 250, 333, 1000}

NoCost == -1

CostInit ==
    /\ cost_args \in [provider : CostProviders, model : CostModels,
                      input_tokens : InputTokens, output_tokens : OutputTokens]
    /\ cost_pc = "start"
    /\ cost_single = NoCost
    /\ cost_double = NoCost

\* The estimate for the call's own token counts.
EstimateCost ==
    /\ cost_pc = "start"
    /\ cost_single' = estimate_cost(cost_args.provider, cost_args.model,
                                    cost_args.input_tokens, cost_args.output_tokens)
    /\ cost_pc' = "single"
    /\ UNCHANGED <<cost_args, cost_double>>
    /\ UNCHANGED outside_cost

\* The estimate for the same call with twice the output tokens.
EstimateDoubled ==
    /\ cost_pc = "single"
    /\ cost_double' = estimate_cost(cost_args.provider, cost_args.model,
                                    cost_args.input_tokens, 2 * cost_args.output_tokens)
    /\ cost_pc' = "both"
    /\ UNCHANGED <<cost_args, cost_single>>
    /\ UNCHANGED outside_cost

CostOff ==
    /\ cost_args = [provider |-> "openai", model |-> "gpt-4o", input_tokens |-> 0,
                    output_tokens |-> 0]
    /\ cost_pc = "off"
    /\ cost_single = NoCost
    /\ cost_double = NoCost

(***************************************************************************)
(* Two approve_decision requests with valid TOTP codes, handled            *)
(* concurrently against one broker account.  A submitted market order      *)
(* makes its symbol a held position.                                       *)
(***************************************************************************)
Approvals == {1, 2}

BuyAllocations == {[etf |-> s, symbol |-> Absent, amount |-> 10] : s \in Symbols}

ConcInit ==
    /\ held \in PositionSets
    /\ conc_request \in [Approvals -> SeqsUpTo(BuyAllocations, MaxAllocs) \ {<<>>}]
    /\ conc_pc = [r \in Approvals |-> "authorized"]
    /\ current_symbols = [r \in Approvals |-> {}]
    /\ conc_next = [r \in Approvals |-> 0]
    /\ conc_results = [r \in Approvals |-> <<>>]
    /\ conc_log = <<>>

\* Lines 424-430: get_positions and the position-count check.
ConcCheckPositions(r) ==
    /\ conc_pc[r] = "authorized"
    /\ current_symbols' = [current_symbols EXCEPT ![r] = held]
    /\ IF PositionLimitExceeded(held \cup new_symbols(conc_request[r]))
       THEN /\ conc_pc' = [conc_pc EXCEPT ![r] = "400_position_limit"]
            /\ UNCHANGED conc_next
       ELSE /\ conc_pc' = [conc_pc EXCEPT ![r] = "ordering"]
            /\ conc_next' = [conc_next EXCEPT ![r] = 1]
    /\ UNCHANGED <<held, conc_request, conc_results, conc_log>>
    /\ UNCHANGED outside_conc

\* Lines 433-456: one place_order call of the loop.
ConcPlaceOrder(r) ==
    /\ conc_pc[r] = "ordering"
    /\ conc_next[r] <= Len(conc_request[r])
    /\ LET alloc == conc_request[r][conc_next[r]]
           etf == AllocSymbol(alloc)
       IN \E accepted \in BOOLEAN :
             /\ held' = IF accepted THEN held \cup {etf} ELSE held
             /\ conc_results' =
                   [conc_results EXCEPT ![r] =
                       Append(@, ExecutionResult(etf, alloc.amount,
                                                 IF accepted THEN "submitted" ELSE "error"))]
    /\ conc_next' = [conc_next EXCEPT ![r] = @ + 1]
    /\ UNCHANGED <<conc_request, conc_pc, current_symbols, conc_log>>
    /\ UNCHANGED outside_conc

\* Lines 463-471.
ConcCreateLog(r) ==
    /\ conc_pc[r] = "ordering"
    /\ conc_next[r] > Len(conc_request[r])
    /\ conc_log' = Append(conc_log,
                          [harness_id |-> "h1", user_action |-> "approved",
                           executed_allocations |-> conc_request[r],
                           execution_results |-> conc_results[r]])
    /\ conc_pc' = [conc_pc EXCEPT ![r] = "done"]
    /\ UNCHANGED <<held, conc_request, current_symbols, conc_next, conc_results>>
    /\ UNCHANGED outside_conc

ConcOff ==
    /\ held = {}
    /\ conc_request = [r \in Approvals |-> <<>>]
    /\ conc_pc = [r \in Approvals |-> "off"]
    /\ current_symbols = [r \in Approvals |-> {}]
    /\ conc_next = [r \in Approvals |-> 0]
    /\ conc_results = [r \in Approvals |-> <<>>]
    /\ conc_log = <<>>

(***************************************************************************)
(* DataService.incremental_update_with_retry, one call, each               *)
(* incremental_update returning a record count or raising.                 *)
(***************************************************************************)
UpdateErrors == {"OperationalError", "InterfaceError"}

UpdateCounts == {0, 5}

\* What one incremental_update call does: it raises error, or, with error
\* empty, returns records.
UpdateOutcomes ==
    {[error |-> e, records |-> 0] : e \in UpdateErrors}
        \cup {[error |-> "", records |-> n] : n \in UpdateCounts}

NoUpdateResult == [status |-> Null]

SleepsAfterEveryAttempt(n) == TRUE

\* Line 290: if attempt < max_retries - 1.
SleepsAfter(n) == n < max_retries - 1

RetryInit ==
    /\ update_outcome \in [1..(max_retries + 1) -> UpdateOutcomes]
    /\ retry_pc = "try"
    /\ retry_attempt = 0
    /\ update_calls = 0
    /\ sleeps = <<>>
    /\ last_error = None
    /\ update_result = NoUpdateResult

\* Lines 284-290: one turn of the loop up to its sleep.
TryUpdate ==
    /\ retry_pc = "try"
    /\ retry_attempt < max_retries
    /\ update_calls' = update_calls + 1
    /\ LET outcome == update_outcome[update_calls + 1]
       IN IF outcome.error = ""
          THEN /\ update_result' = [status |-> "success", records |-> outcome.records]
               /\ retry_pc' = "returned"
               /\ UNCHANGED <<retry_attempt, last_error>>
          ELSE /\ last_error' = <<outcome.error>>
               /\ IF SleepsAfter(retry_attempt)
                  THEN /\ retry_pc' = "sleep"
                       /\ UNCHANGED retry_attempt
                  ELSE /\ retry_attempt' = retry_attempt + 1
                       /\ UNCHANGED retry_pc
               /\ UNCHANGED update_result
    /\ UNCHANGED <<update_outcome, sleeps>>
    /\ UNCHANGED outside_retry

\* Line 291: await asyncio.sleep(2 ** attempt).
Backoff ==
    /\ retry_pc = "sleep"
    /\ sleeps' = Append(sleeps, 2 ^ retry_attempt)
    /\ retry_attempt' = retry_attempt + 1
    /\ retry_pc' = "try"
    /\ UNCHANGED <<update_outcome, update_calls, last_error, update_result>>
    /\ UNCHANGED outside_retry

\* Lines 293-295: the loop is exhausted.
GiveUp ==
    /\ retry_pc = "try"
    /\ retry_attempt >= max_retries
    /\ update_result' = [status |-> "failed", error |-> last_error]
    /\ retry_pc' = "returned"
    /\ UNCHANGED <<update_outcome, retry_attempt, update_calls, sleeps, last_error>>
    /\ UNCHANGED outside_retry

RetryOff ==
    /\ update_outcome = [k \in 1..(max_retries + 1) |-> [error |-> "", records |-> 0]]
    /\ retry_pc = "off"
    /\ retry_attempt = 0
    /\ update_calls = 0
    /\ sleeps = <<>>
    /\ last_error = None
    /\ update_result = NoUpdateResult

(***************************************************************************)
(* PromptService: get_current, update_prompt, activate_version and         *)
(* delete_version, called one at a time.  A version label "v<a>.<b>" is    *)
(* held as its prefix and its dot-separated numbers.                       *)
(***************************************************************************)
MaxVersions == 4

Label(major, minor) == [prefix |-> "v", parts |-> <<major, minor>>]

\* Lines 144-153.
increment_version(version) ==
    IF version.prefix # "v" THEN Label(1, 0)
    ELSE IF Len(version.parts) = 2 THEN Label(version.parts[1], version.parts[2] + 1)
    ELSE Label(version.parts[1] + 1, 0)

PromptVersion(id, version, is_current) ==
    [id |-> id, version |-> version, is_current |-> is_current]

CurrentVersions == {v \in prompt_versions : v.is_current}

ClearNone(rows) == rows

\* update(PromptVersion).where(is_current == True).values(is_current=False),
\* and current.is_current = False for the one current row.
ClearCurrent(rows) == {PromptVersion(v.id, v.version, FALSE) : v \in rows}

NoCall == [op |-> "none", id |-> 0, outcome |-> "none"]

PromptInit ==
    /\ prompt_versions = {}
    /\ next_version_id = 1
    /\ got_current = FALSE
    /\ prompt_response = NoCall

\* Lines 43-52 and 131-142.
GetCurrent ==
    /\ IF CurrentVersions # {}
       THEN /\ prompt_response' =
                  [op |-> "get_current", id |-> (CHOOSE v \in CurrentVersions : TRUE).id,
                   outcome |-> "ok"]
            /\ UNCHANGED <<prompt_versions, next_version_id>>
       ELSE /\ next_version_id <= MaxVersions
            /\ prompt_versions' =
                  prompt_versions \cup {PromptVersion(next_version_id, Label(1, 0), TRUE)}
            /\ next_version_id' = next_version_id + 1
            /\ prompt_response' =
                  [op |-> "get_current", id |-> next_version_id, outcome |-> "created"]
    /\ got_current' = TRUE
    /\ UNCHANGED outside_prompt

\* Lines 54-84.
UpdatePrompt ==
    /\ next_version_id <= MaxVersions
    /\ LET new_version ==
              IF CurrentVersions # {}
              THEN increment_version((CHOOSE v \in CurrentVersions : TRUE).version)
              ELSE Label(1, 0)
       IN prompt_versions' =
             ClearCurrent(prompt_versions)
                \cup {PromptVersion(next_version_id, new_version, TRUE)}
    /\ next_version_id' = next_version_id + 1
    /\ prompt_response' = [op |-> "update_prompt", id |-> next_version_id, outcome |-> "ok"]
    /\ UNCHANGED got_current
    /\ UNCHANGED outside_prompt

\* Lines 86-104.
ActivateVersion(version_id) ==
    /\ IF \E v \in prompt_versions : v.id = version_id
       THEN LET target == CHOOSE v \in prompt_versions : v.id = version_id
            IN /\ prompt_versions' =
                     ClearCurrent(prompt_versions \ {target})
                        \cup {PromptVersion(target.id, target.version, TRUE)}
               /\ prompt_response' =
                     [op |-> "activate_version", id |-> version_id, outcome |-> "ok"]
       ELSE /\ prompt_response' =
                  [op |-> "activate_version", id |-> version_id, outcome |-> "not_found"]
            /\ UNCHANGED prompt_versions
    /\ UNCHANGED <<next_version_id, got_current>>
    /\ UNCHANGED outside_prompt

\* Lines 106-117.
DeleteVersion(version_id) ==
    /\ IF \E v \in prompt_versions : v.id = version_id
       THEN LET target == CHOOSE v \in prompt_versions : v.id = version_id
            IN IF target.is_current
               THEN /\ prompt_response' =
                          [op |-> "delete_version", id |-> version_id,
                           outcome |-> "refused_current"]
                    /\ UNCHANGED prompt_versions
               ELSE /\ prompt_versions' = prompt_versions \ {target}
                    /\ prompt_response' =
                          [op |-> "delete_version", id |-> version_id, outcome |-> "ok"]
       ELSE /\ prompt_response' =
                  [op |-> "delete_version", id |-> version_id, outcome |-> "not_found"]
            /\ UNCHANGED prompt_versions
    /\ UNCHANGED <<next_version_id, got_current>>
    /\ UNCHANGED outside_prompt

PromptOff ==
    /\ prompt_versions = {}
    /\ next_version_id = 0
    /\ got_current = FALSE
    /\ prompt_response = NoCall

(***************************************************************************)
(* The schedule endpoints of a running process: create_schedule,           *)
(* update_schedule and trigger_schedule on the ScheduleTask table.         *)
(***************************************************************************)
\* An argument left at None.
Unset == "<unset>"

NoScheduleCall == [op |-> "none", task_id |-> 0]

\* The table right after a start that recomputed every next-run time.
ManageInit ==
    /\ now \in {3, 30}
    /\ \E n \in 0..1 :
          schedule_task \in
              [1..n -> {ScheduleTask("price_update", c, TRUE, get_next(c, now), Never, Null) :
                           c \in {e \in CronExpressions : CronValid(e)}}]
    /\ schedule_response = NoScheduleCall

\* SchedulerService.create_task, lines 60-79: the row as constructed;
\* next_run_at is not set.
create_task(cron_expression, task_type) ==
    ScheduleTask(task_type, cron_expression, TRUE, Never, Never, Null)

\* SchedulerService.update_task, lines 95-100: the row after the assignments.
update_task(task, cron_expression, is_enabled) ==
    [task EXCEPT !.cron_expression = IF cron_expression # Unset THEN cron_expression ELSE @,
                 !.is_enabled = IF is_enabled # Unset THEN is_enabled = "true" ELSE @]

\* create_schedule, api.py lines 543-553.
CreateSchedule ==
    /\ Cardinality(DOMAIN schedule_task) < MaxTasks
    /\ \E cron_expression \in CronExpressions, task_type \in TaskTypes :
          LET task_id == Cardinality(DOMAIN schedule_task) + 1
          IN /\ schedule_task' =
                   [t \in DOMAIN schedule_task \cup {task_id} |->
                       IF t = task_id THEN create_task(cron_expression, task_type)
                       ELSE schedule_task[t]]
             /\ schedule_response' = [op |-> "create", task_id |-> task_id]
    /\ UNCHANGED now
    /\ UNCHANGED outside_manage

\* update_schedule, api.py lines 556-571.
UpdateSchedule ==
    /\ \E task_id \in TaskIds, cron_expression \in CronExpressions \cup {Unset},
          is_enabled \in {"true", "false", Unset} :
          IF task_id \in DOMAIN schedule_task
          THEN /\ schedule_task' =
                     [schedule_task EXCEPT
                         ![task_id] = update_task(@, cron_expression, is_enabled)]
               /\ schedule_response' = [op |-> "update", task_id |-> task_id]
          ELSE /\ schedule_response' = [op |-> "update_404", task_id |-> task_id]
               /\ UNCHANGED schedule_task
    /\ UNCHANGED now
    /\ UNCHANGED outside_manage

\* trigger_schedule, api.py lines 586-688: the run and update_run_status.
TriggerSchedule ==
    /\ \E task_id \in TaskIds, status \in {"success", "partial_failure"} :
          IF get_task(task_id) = NoTask
          THEN /\ schedule_response' = [op |-> "trigger_404", task_id |-> task_id]
               /\ UNCHANGED schedule_task
          ELSE /\ schedule_task' = update_run_status(task_id, status)
               /\ schedule_response' = [op |-> "trigger", task_id |-> task_id]
    /\ UNCHANGED now
    /\ UNCHANGED outside_manage

ManageOff == schedule_response = [op |-> "off", task_id |-> 0]

(***************************************************************************)
(* Specifications.  Each runs one part; the variables of the other parts   *)
(* rest at the values below.                                               *)
(***************************************************************************)
ArenaOff ==
    /\ api_keys = {}
    /\ decision_harness = {"h1"}
    /\ harness_id = "h1"
    /\ backend = [m \in Catalog |-> Uncalled]
    /\ run_pc = "off"
    /\ available_models = <<>>
    /\ run_result = <<>>
    /\ task_pc = [m \in Catalog |-> "idle"]
    /\ model_session = [m \in Catalog |-> NoSession]
    /\ pending = [m \in Catalog |-> NoRecord]
    /\ in_try = [m \in Catalog |-> FALSE]
    /\ task_result = [m \in Catalog |-> NoResult]
    /\ model_io = {}
    /\ commit_log = {}
    /\ open_sessions = {CallerSession}
    /\ db_failed = FALSE

ParseOff ==
    /\ raw = <<>>
    /\ parse_pc = "off"
    /\ parse_out = NoOutput

ApproveOff ==
    /\ positions = {}
    /\ snb_totp_secret = FALSE
    /\ broker = "ok"
    /\ request = [user |-> FALSE, code_valid |-> FALSE, allocations |-> <<>>]
    /\ approve_pc = "off"
    /\ position_checked = FALSE
    /\ next_alloc = 0
    /\ execution_results = <<>>
    /\ order_calls = <<>>
    /\ decision_log = <<>>

vars == <<arena_vars, parse_vars, approve_vars, sched_vars, price_vars, trigger_vars, startup_vars, decide_vars, render_vars, cost_vars, conc_vars, retry_vars, prompt_vars, manage_vars>>

\* One Arena run.
Init == ArenaInit /\ ParseOff /\ ApproveOff /\ SchedOff /\ PriceOff /\ TriggerOff /\ StartupOff /\ DecideOff /\ RenderOff /\ CostOff /\ ConcOff /\ RetryOff /\ PromptOff /\ ManageOff

Next == ArenaNext

Spec == Init /\ [][Next]_vars

\* The parser on one text.
InitParse == ParseInit /\ ArenaOff /\ ApproveOff /\ SchedOff /\ PriceOff /\ TriggerOff /\ StartupOff /\ DecideOff /\ RenderOff /\ CostOff /\ ConcOff /\ RetryOff /\ PromptOff /\ ManageOff

NextParse == Parse

SpecParse == InitParse /\ [][NextParse]_vars

\* One approve request.
InitApprove == ApproveInit /\ ArenaOff /\ ParseOff /\ SchedOff /\ PriceOff /\ TriggerOff /\ StartupOff /\ DecideOff /\ RenderOff /\ CostOff /\ ConcOff /\ RetryOff /\ PromptOff /\ ManageOff

NextApprove == VerifyTotp \/ CheckPositions \/ PlaceOrder \/ CreateLog

SpecApprove == InitApprove /\ [][NextApprove]_vars

\* One trigger of a price_update task.
InitPrice == PriceInit /\ ArenaOff /\ ParseOff /\ ApproveOff /\ TriggerOff /\ StartupOff /\ DecideOff /\ RenderOff /\ CostOff /\ ConcOff /\ RetryOff /\ PromptOff /\ ManageOff

NextPrice == PriceStart \/ SmartBackfill \/ Attempt \/ ValidatePrices \/ PriceFinish

SpecPrice == InitPrice /\ [][NextPrice]_vars

\* Two requests that build a harness and run the Arena on it.
InitTrigger == TriggerInit /\ ParseOff /\ ApproveOff /\ PriceOff /\ StartupOff /\ DecideOff /\ RenderOff /\ CostOff /\ ConcOff /\ RetryOff /\ PromptOff /\ ManageOff

NextTrigger ==
    \E r \in Triggers :
        \/ BuildHarness(r)
        \/ StartRun(r)
        \/ (\E m \in Catalog : InvokeModel(r, m))
        \/ JoinRun(r)
        \/ ScoreStep(r)
        \/ FinishTrigger(r)

SpecTrigger == InitTrigger /\ [][NextTrigger]_vars

\* One process start.
InitStartup == StartupInit /\ ArenaOff /\ ParseOff /\ ApproveOff /\ PriceOff /\ TriggerOff /\ DecideOff /\ RenderOff /\ CostOff /\ ConcOff /\ RetryOff /\ PromptOff /\ ManageOff

NextStartup == LoadSchedules \/ ComputeNextRun \/ StartupDone

SpecStartup == InitStartup /\ [][NextStartup]_vars

\* An Arena run, an approve, an adopt and a skip or reject request, interleaved.
InitDecide == DecideInit /\ ParseOff /\ SchedOff /\ PriceOff /\ TriggerOff /\ StartupOff /\ RenderOff /\ CostOff /\ ConcOff /\ RetryOff /\ PromptOff /\ ManageOff

NextDecide ==
    \/ ArenaNext
    \/ NextApprove
    \/ AdoptModel
    \/ SkipDecision
    \/ RejectDecision

SpecDecide == InitDecide /\ [][NextDecide]_vars

\* Two runs on one stored harness, each rendering it and handing the text on.
InitRender == RenderInit /\ ArenaOff /\ ParseOff /\ ApproveOff /\ SchedOff /\ PriceOff /\ TriggerOff /\ StartupOff /\ DecideOff /\ CostOff /\ ConcOff /\ RetryOff /\ PromptOff /\ ManageOff

NextRender ==
    \/ \E r \in Runs : SerializeHarness(r)
    \/ \E r \in Runs : CreateTasks(r)
    \/ \E r \in Runs, m \in Catalog : BuildInput(r, m)

SpecRender == InitRender /\ [][NextRender]_vars

\* One cost estimate and the estimate of the same call with doubled output.
InitCost == CostInit /\ ArenaOff /\ ParseOff /\ ApproveOff /\ SchedOff /\ PriceOff /\ TriggerOff /\ StartupOff /\ DecideOff /\ RenderOff /\ ConcOff /\ RetryOff /\ PromptOff /\ ManageOff

NextCost ==
    \/ EstimateCost
    \/ EstimateDoubled

SpecCost == InitCost /\ [][NextCost]_vars

\* Two concurrent approvals on one account.
InitConc == ConcInit /\ ArenaOff /\ ParseOff /\ ApproveOff /\ SchedOff /\ PriceOff /\ TriggerOff /\ StartupOff /\ DecideOff /\ RenderOff /\ CostOff /\ RetryOff /\ PromptOff /\ ManageOff

NextConc ==
    \/ \E r \in Approvals : ConcCheckPositions(r)
    \/ \E r \in Approvals : ConcPlaceOrder(r)
    \/ \E r \in Approvals : ConcCreateLog(r)

SpecConc == InitConc /\ [][NextConc]_vars

\* One call of incremental_update_with_retry; the event loop keeps running the
\* coroutine, and every incremental_update call and every sleep ends.
InitRetry == RetryInit /\ ArenaOff /\ ParseOff /\ ApproveOff /\ SchedOff /\ PriceOff /\ TriggerOff /\ StartupOff /\ DecideOff /\ RenderOff /\ CostOff /\ ConcOff /\ PromptOff /\ ManageOff

NextRetry ==
    \/ TryUpdate
    \/ Backoff
    \/ GiveUp

SpecRetry == InitRetry /\ [][NextRetry]_vars /\ WF_vars(NextRetry)

\* Any sequence of PromptService calls, one at a time.
InitPrompt == PromptInit /\ ArenaOff /\ ParseOff /\ ApproveOff /\ SchedOff /\ PriceOff /\ TriggerOff /\ StartupOff /\ DecideOff /\ RenderOff /\ CostOff /\ ConcOff /\ RetryOff /\ ManageOff

NextPrompt ==
    \/ GetCurrent
    \/ UpdatePrompt
    \/ \E version_id \in 1..MaxVersions : ActivateVersion(version_id)
    \/ \E version_id \in 1..MaxVersions : DeleteVersion(version_id)

SpecPrompt == InitPrompt /\ [][NextPrompt]_vars

\* Schedule calls against a running process.
InitManage == ManageInit /\ ArenaOff /\ ParseOff /\ ApproveOff /\ PriceOff /\ TriggerOff /\ StartupOff /\ DecideOff /\ RenderOff /\ CostOff /\ ConcOff /\ RetryOff /\ PromptOff

NextManage ==
    \/ CreateSchedule
    \/ UpdateSchedule
    \/ TriggerSchedule

SpecManage == InitManage /\ [][NextManage]_vars

(***************************************************************************)
(* Properties of the Arena run.                                            *)
(***************************************************************************)
HarnessExists == harness_id \in decision_harness

\* The catalog models that have a credential configured.
Credentialed == {m \in Catalog : ARENA_MODELS[m].api_key_attr \in api_keys}

TerminalStatuses == {"success", "timeout", "error"}

ReturnedIds == {run_result[i].id : i \in 1..Len(run_result)}

\* C1: a run on an existing harness with N credentialed catalog models, whatever
\* each model's endpoint does (text, no answer in time, failure, failing
\* construction) and with commit and refresh working, returns exactly N records
\* and has committed exactly N rows, one per candidate model, each with a status
\* in {success, timeout, error}.
C1_OneRecordPerModel ==
    (run_pc = "returned" /\ ~db_failed) =>
        /\ Len(run_result) = Cardinality(Credentialed)
        /\ Cardinality(model_io) = Cardinality(Credentialed)
        /\ \A m \in Credentialed :
              /\ Cardinality(RowsOf(m)) = 1
              /\ Cardinality({i \in 1..Len(run_result) :
                                 run_result[i].model_name = ARENA_MODELS[m].model}) = 1
        /\ \A i \in 1..Len(run_result) : run_result[i].status \in TerminalStatuses
        /\ \A r \in model_io : r.status \in TerminalStatuses /\ r.harness_id = harness_id

\* A finished run over at least two models whose endpoints behave differently.
C1_Witness ==
    /\ run_pc = "returned"
    /\ ~db_failed
    /\ Len(run_result) >= 2
    /\ \E a, b \in Credentialed : backend[a] = Slow /\ backend[b] \in ArenaTexts

\* C2: whatever happens to the task of model A (its adapter failing or timing
\* out, or an exception leaving the task), the run is not aborted, it returns
\* only after every task has finished, and the record of any other task B that
\* produced one is in the returned list unchanged and equal to its committed row.
C2_FailureIsolation ==
    /\ HarnessExists => run_pc # "raised"
    /\ run_pc = "returned" => \A b \in Launched : task_pc[b] = "done"
    /\ \A b \in Catalog :
          task_result[b].kind = "dict" =>
             /\ \E r \in model_io : to_dict(r) = task_result[b].value
             /\ run_pc = "returned" =>
                   \E i \in 1..Len(run_result) : run_result[i] = task_result[b].value

\* A returned run in which an exception left one task and another task's record
\* is in the returned list.
C2_Witness ==
    /\ run_pc = "returned"
    /\ \E a, b \in Launched :
          /\ task_result[a].kind = "exception"
          /\ task_result[b].kind = "dict"
          /\ \E i \in 1..Len(run_result) : run_result[i] = task_result[b].value

\* C3: the record of a model whose endpoint does not answer within
\* MODEL_TIMEOUT has status timeout and an error message naming the timeout
\* duration, never another status.
C3_SlowModelTimesOut ==
    \A r \in model_io :
        backend[r.id[1]] = Slow =>
            r.status = "timeout" /\ r.error_message.seconds = MODEL_TIMEOUT

\* C4: a task that has ended, on whichever path (success, timeout, adapter
\* error, failing commit or refresh), has committed exactly one record for its
\* (harness, model) pairing.
C4_ExactlyOneRecord ==
    \A m \in Catalog : task_pc[m] = "done" => Cardinality(RowsOf(m)) = 1

\* C5: the list run returns is exactly the set of rows committed during the run,
\* and run returns only after every launched task has finished.
C5_ReturnedIsCommitted ==
    run_pc = "returned" =>
        /\ \A m \in Launched : task_pc[m] = "done"
        /\ ReturnedIds = {r.id : r \in model_io}
        /\ \A i \in 1..Len(run_result) : \E r \in model_io : to_dict(r) = run_result[i]

\* C6: with no credential configured a run on an existing harness returns the
\* empty list without raising, starts no task and writes no row; and a catalog
\* model without a credential is never given a task, a session or a row.
C6_NoCredentialNoCall ==
    /\ (HarnessExists /\ Credentialed = {} /\ run_pc # "start") =>
          /\ run_pc = "returned"
          /\ run_result = <<>>
          /\ model_io = {}
    /\ \A m \in Catalog \ Credentialed :
          /\ task_pc[m] = "idle"
          /\ model_session[m] = NoSession
          /\ pending[m] = NoRecord
          /\ RowsOf(m) = {}
          /\ \A i \in 1..Len(run_result) : run_result[i].model_name # ARENA_MODELS[m].model

\* A finished run on an existing harness with no credential configured.
C6_Witness == HarnessExists /\ Credentialed = {} /\ run_pc = "returned"

\* C7: every row is written through the session its own task acquired, never
\* through the session passed to run and never through another task's session;
\* a task holds its session open while it works and has released it once done.
C7_OwnSession ==
    /\ \A c \in commit_log :
          /\ c.session = get_postgres_session(c.task)
          /\ c.session # CallerSession
          /\ \A d \in commit_log : d.task # c.task => d.session # c.session
    /\ \A m \in Catalog :
          /\ task_pc[m] \in {"open", "added", "committed"} => model_session[m] \in open_sessions
          /\ task_pc[m] = "done" => model_session[m] \notin open_sessions
    /\ CallerSession \in open_sessions

\* Two tasks have each committed a row and one of them has ended and released
\* its session while the other still holds its own.
C7_Witness ==
    \E a, b \in Catalog :
        /\ a # b
        /\ RowsOf(a) # {} /\ RowsOf(b) # {}
        /\ task_pc[a] = "done" /\ task_pc[b] = "committed"

(***************************************************************************)
(* Properties of the parser.                                               *)
(***************************************************************************)
\* Lines 156-163 and 210-217 of _call_model for an adapter call that returned
\* the text in time: a parser exception is taken by the Exception handler.
RecordedStatus(out) == IF out.exc = "none" THEN "success" ELSE "error"

\* C8: for every raw text the parser returns a parse status and raises nothing,
\* so an invocation whose adapter returned the text in time is recorded with
\* status success.
C8_ParserNeverRaises ==
    parse_pc = "parsed" =>
        /\ parse_out.exc = "none"
        /\ parse_out.parse_status \in {"structured", "partial", "raw_only"}
        /\ RecordedStatus(parse_out) = "success"

\* What the three tiers look at in a text.
JsonCandidate(text) == IF FenceSearch(text).found THEN FenceSearch(text).group ELSE text

ParsesAsJson(text) == json_loads(JsonCandidate(text)).ok

FindsAction(text) == ActionSearch(text).found

FindsNumericConfidence(text) ==
    ConfidenceSearch(text).found /\ float(ConfidenceSearch(text).group).ok

\* C9: the status is structured exactly when the fenced block (the whole text
\* when there is none) parses as JSON; otherwise partial exactly when the regex
\* tier finds an action token, stored uppercased, or a numeric confidence;
\* otherwise raw_only with an empty stored structured output.
C9_ThreeTiers ==
    parse_pc = "parsed" =>
        /\ parse_out.parse_status = "structured" <=> ParsesAsJson(raw)
        /\ parse_out.parse_status = "partial" <=>
              (~ParsesAsJson(raw) /\ (FindsAction(raw) \/ FindsNumericConfidence(raw)))
        /\ parse_out.parse_status = "raw_only" <=>
              (~ParsesAsJson(raw) /\ ~FindsAction(raw) /\ ~FindsNumericConfidence(raw))
        /\ (parse_out.parse_status = "partial" /\ FindsAction(raw)) =>
              parse_out.action = upper(ActionSearch(raw).group)
        /\ parse_out.parse_status = "raw_only" => StoredStructured(parse_out) = None

(***************************************************************************)
(* Properties of approve_decision.                                         *)
(***************************************************************************)
\* The symbols the request's allocations name.
RequestSymbols == new_symbols(request.allocations) \ {""}

\* The allocations' symbols together with the held ones exceed three.
OverLimit == Cardinality(positions \cup RequestSymbols) > 3

Authorized == (request.user \/ snb_totp_secret) /\ request.code_valid

\* The allocations that name a symbol and a positive amount, in request order.
Eligible ==
    SelectSeq(request.allocations,
              LAMBDA a : (a.etf # Absent \/ a.symbol \notin {Absent, ""}) /\ a.amount > 0)

EligibleSymbol(a) == IF a.etf # Absent THEN a.etf ELSE a.symbol

\* C22: once a request that passed the position check is done, there is one
\* DecisionLog, with action approved; it holds one execution result per
\* allocation with a symbol and a positive amount, in allocation order, each
\* submitted or error, and one order was placed for each of them and for no
\* other allocation.  No log exists before the last order.
C22_ResultPerAllocation ==
    LET passed == position_checked /\ approve_pc \in {"ordering", "done"}
    IN /\ (passed /\ approve_pc = "ordering") => decision_log = <<>>
       /\ (passed /\ approve_pc = "done") =>
             /\ Len(decision_log) = 1
             /\ decision_log[1].user_action = "approved"
             /\ decision_log[1].executed_allocations = request.allocations
             /\ Len(decision_log[1].execution_results) = Len(Eligible)
             /\ \A i \in 1..Len(Eligible) :
                   /\ decision_log[1].execution_results[i].symbol = EligibleSymbol(Eligible[i])
                   /\ decision_log[1].execution_results[i].amount = Eligible[i].amount
                   /\ decision_log[1].execution_results[i].status \in {"submitted", "error"}
             /\ order_calls = [i \in 1..Len(Eligible) |->
                                  [symbol |-> EligibleSymbol(Eligible[i]),
                                   quantity |-> Eligible[i].amount]]

\* A logged approval of two allocations: the order of the first failed, the
\* order of the second was submitted.
C22_Witness ==
    /\ approve_pc = "done" /\ position_checked
    /\ Len(request.allocations) = 2
    /\ Len(decision_log) = 1
    /\ Len(decision_log[1].execution_results) = 2
    /\ decision_log[1].execution_results[1].status = "error"
    /\ decision_log[1].execution_results[2].status = "submitted"

\* C23: a request whose TOTP check fails goes from the start to its 403 and
\* nowhere else: no position query, no order, no execution result, no
\* DecisionLog.
C23_RefusedFirst ==
    ~Authorized =>
        /\ approve_pc \in {"start", "403_invalid", "403_not_configured"}
        /\ ~position_checked
        /\ order_calls = <<>>
        /\ execution_results = <<>>
        /\ decision_log = <<>>

\* An anonymous request with allocations, no TOTP secret configured and a
\* broker that would answer has been refused.
C23_Witness ==
    /\ ~request.user /\ ~snb_totp_secret
    /\ request.allocations # <<>>
    /\ broker = "ok"
    /\ approve_pc = "403_not_configured"

\* C26: every DecisionLog with action approved and allocations belongs to a
\* request whose position check was evaluated and passed.
C26_ApprovedOnlyAfterCheck ==
    \A i \in 1..Len(decision_log) :
        (decision_log[i].user_action = "approved"
            /\ decision_log[i].executed_allocations # <<>>) => position_checked

(***************************************************************************)
(* Properties of the price_update task.                                    *)
(***************************************************************************)
FailedSymbols == {price_results.failed[i].symbol : i \in 1..Len(price_results.failed)}

\* The symbol's refresh fails on every attempt: the upstream request errors
\* each time, or every database query for it raises.
RefreshAlwaysFails(symbol) == fetch[symbol] = "error" \/ db[symbol] = "down"

\* C11: when the run has ended and the refresh of some watchlist symbol failed
\* on every attempt, that symbol is in the failed list and the stored run
\* status is partial_failure.
C11_FailedSymbolReported ==
    price_pc = "done" =>
        \A i \in 1..Len(watchlist) :
            RefreshAlwaysFails(watchlist[i]) =>
                /\ watchlist[i] \in FailedSymbols
                /\ schedule_task[price_task_id].last_run_status = "partial_failure"
                /\ price_response.status = "partial_failure"

\* C12: the stored last-run status is partial_failure when the failed list is
\* non-empty, else success_with_warnings when the anomalies list is non-empty,
\* else success, and the response carries the same status.
C12_StatusFromResult ==
    price_pc = "done" =>
        /\ price_results.failed # <<>> =>
              schedule_task[price_task_id].last_run_status = "partial_failure"
        /\ (price_results.failed = <<>> /\ price_results.anomalies # <<>>) =>
              schedule_task[price_task_id].last_run_status = "success_with_warnings"
        /\ (price_results.failed = <<>> /\ price_results.anomalies = <<>>) =>
              schedule_task[price_task_id].last_run_status = "success"
        /\ price_response.status = schedule_task[price_task_id].last_run_status
        /\ schedule_task[price_task_id].last_run_at = now

\* A finished run with a failed symbol and an anomaly at once.
C12_Witness ==
    /\ price_pc = "done"
    /\ price_results.failed # <<>>
    /\ price_results.anomalies # <<>>
    /\ schedule_task[price_task_id].last_run_status = "partial_failure"

BackfilledSymbols ==
    {price_results.backfilled[i].symbol : i \in 1..Len(price_results.backfilled)}

\* How many entries of the success, failed and backfilled lists name the symbol.
ListEntries(symbol) ==
    Cardinality({i \in 1..Len(price_results.success) : price_results.success[i] = symbol})
      + Cardinality({i \in 1..Len(price_results.failed) :
                        price_results.failed[i].symbol = symbol})
      + Cardinality({i \in 1..Len(price_results.backfilled) :
                        price_results.backfilled[i].symbol = symbol})

\* C27: when robust_update_all has returned, each watchlist symbol has exactly
\* one entry in the success, failed and backfilled lists together and the lists
\* name no other symbol; the incremental update and the price validation never
\* run for a symbol that is in backfilled.
C27_WatchlistPartition ==
    /\ price_pc = "done" =>
          /\ \A i \in 1..Len(watchlist) : ListEntries(watchlist[i]) = 1
          /\ Len(price_results.success) + Len(price_results.failed)
                + Len(price_results.backfilled) = Len(watchlist)
    /\ price_pc \in {"retry", "validate"} => watchlist[sym_idx] \notin BackfilledSymbols

\* A finished run that backfilled one symbol and updated and validated another.
C27_Witness ==
    /\ price_pc = "done"
    /\ price_config.validate
    /\ price_results.backfilled # <<>>
    /\ price_results.success # <<>>

(***************************************************************************)
(* Properties of run_arena and of an arena_analysis trigger.               *)
(***************************************************************************)
\* The update_on_decision calls request r made for the invocation with this id.
ScoreCallsFor(r, id) ==
    {i \in 1..Len(score_calls) : score_calls[i].request = r /\ score_calls[i].id = id}

TaskTriggers == {r \in Triggers : trig_kind[r] = "task"}

\* C14: a trigger builds and persists its harness before its Arena run, joins
\* every invocation before the score loop, and sets pending_user_action only
\* when it has finished; build and run are called at most once each, and while
\* no trigger has finished (each is under way or has raised) the task's
\* last-run status and time are as they were.
C14_TriggerOrder ==
    /\ \A r \in Triggers :
          /\ build_calls[r] <= 1 /\ run_calls[r] <= 1
          /\ run_calls[r] = 1 => (build_calls[r] = 1 /\ trig_harness[r] \in decision_harness)
          /\ trig_pc[r] \in {"scoring", "done"} =>
                /\ run_calls[r] = 1
                /\ \A m \in Credentialed : trig_tasks[r][m].kind \in {"dict", "exception"}
          /\ (\E c \in 1..Len(score_calls) : score_calls[c].request = r) =>
                trig_pc[r] \in {"scoring", "done"}
          /\ trig_pc[r] = "raised" => trig_models[r] = <<>>
    /\ (\A r \in TaskTriggers : trig_pc[r] # "done") =>
          \A t \in TaskIds :
              /\ schedule_task[t].last_run_status # "pending_user_action"
              /\ schedule_task[t].last_run_at # now
    /\ (\E r \in TaskTriggers : trig_pc[r] = "done") =>
          /\ schedule_task[trig_task_id].last_run_status = "pending_user_action"
          /\ schedule_task[trig_task_id].last_run_at = now

\* A trigger whose Arena run raised after its build, while the task's last-run
\* fields are untouched.
C14_Witness ==
    \E r \in TaskTriggers :
        /\ trig_pc[r] = "raised"
        /\ run_calls[r] = 1
        /\ \A q \in Triggers : trig_pc[q] # "done"
        /\ schedule_task[trig_task_id].last_run_status = "success"

\* C15: with two requests under way at once, every row carries the harness id
\* of the request whose task wrote it, the two harnesses differ, each run
\* returns only rows of its own harness, and every returned record is a row.
C15_OwnHarness ==
    /\ \A row \in model_io : row.harness_id = trig_harness[row.id[1]]
    /\ \A r, q \in Triggers :
          (r # q /\ trig_harness[r] # NoHarness) => trig_harness[r] # trig_harness[q]
    /\ \A r \in Triggers :
          /\ \A i \in 1..Len(trig_models[r]) :
                /\ trig_models[r][i].harness_id = trig_harness[r]
                /\ trig_models[r][i].id[1] = r
          /\ \A m \in Catalog :
                trig_tasks[r][m].kind = "dict" =>
                    \E row \in model_io : to_dict(row) = trig_tasks[r][m].value

\* Both runs are in their gather at once and each has written a row.
C15_Witness ==
    /\ \A r \in Triggers : trig_pc[r] = "gather"
    /\ \A r \in Triggers : \E row \in model_io : row.id[1] = r

(***************************************************************************)
(* Properties of the startup reload.                                       *)
(***************************************************************************)
\* C16: once startup has completed, every enabled task holds the next-run time
\* computed from its cron expression and the start time, whatever was stored
\* before, and none holds a next-run time before the start time.
C16_NextRunRecomputed ==
    start_pc = "started" =>
        \A t \in TaskIds :
            schedule_task[t].is_enabled =>
                /\ schedule_task[t].next_run_at >= now
                /\ CronValid(schedule_task[t].cron_expression) =>
                      schedule_task[t].next_run_at =
                          get_next(schedule_task[t].cron_expression, now)

\* C18: every ModelIO row names an existing harness; a run on a harness id
\* that does not exist raises with no task created and no row written; a step
\* never removes or changes a row, and once run has returned no row is added.
C18_RecordsOfExistingHarness ==
    /\ [](/\ \A row \in model_io : row.harness_id \in decision_harness
          /\ ~HarnessExists =>
                /\ run_pc \in {"start", "raised"}
                /\ \A m \in Catalog : task_pc[m] = "idle" /\ task_result[m] = NoResult
                /\ model_io = {})
    /\ [][/\ model_io \subseteq model_io'
          /\ run_pc = "returned" => model_io' = model_io]_vars

\* The run has returned after two tasks each wrote a row for its harness.
C18_Witness ==
    /\ run_pc = "returned"
    /\ HarnessExists
    /\ Cardinality({row \in model_io : row.harness_id = harness_id}) >= 2

(***************************************************************************)
(* Properties of the harness table and of adoption.                        *)
(***************************************************************************)
\* C17: every adoption made for a harness names an invocation of that harness;
\* a request naming an invocation of another harness changes no score.
C17_AdoptionOfSameHarness ==
    \A c \in adoption_calls : c.model_io_harness = c.harness_id

\* C19: no step of an Arena run, an adopt request or an approve, skip or reject
\* request changes any field of any harness row.
C19_HarnessReadOnly == [][harness_store' = harness_store]_vars

\* An Arena run has returned rows, an approval has been logged, an adoption
\* made and a skip or reject logged, and the harness rows are as stored.
C19_Witness ==
    /\ run_pc = "returned" /\ run_result # <<>>
    /\ approve_pc = "done"
    /\ adopt_pc = "adopted"
    /\ decide_pc = "done"
    /\ harness_store = StoredHarnesses

(***************************************************************************)
(* Properties of the harness rendering.                                    *)
(***************************************************************************)
SectionHeaders ==
    <<"=== market snapshot ===", "=== account ===", "=== memory ===", "=== task ===">>

SectionLabels ==
    <<{"symbol"}, {"cash", "total", "position"}, {"decision", "reflection", "experience"},
      {"type", "budget", "constraints"}>>

HeaderAt(text, k) == CHOOSE i \in 1..Len(text) : text[i] = <<SectionHeaders[k]>>

\* date, harness type, then the four sections, each header once and in
\* order, each holding only its own kind of lines.
InFixedOrder(text) ==
    /\ Len(text) >= 4
    /\ text[1][1] = "date" /\ text[2][1] = "harness_type"
    /\ \A k \in 1..4 : Cardinality({i \in 1..Len(text) : text[i] = <<SectionHeaders[k]>>}) = 1
    /\ HeaderAt(text, 1) = 4
    /\ \A k \in 1..3 : HeaderAt(text, k) < HeaderAt(text, k + 1)
    /\ \A k \in 1..4 : \A i \in 1..Len(text) :
          (/\ i > HeaderAt(text, k)
           /\ (k = 4 \/ i < HeaderAt(text, k + 1)))
             => text[i] = Blank \/ text[i][1] \in SectionLabels[k]

C21_CostMonotonic ==
    LET rate == RateOf(cost_args.provider)
        exact(out) == cost_args.input_tokens * rate.input + out * rate.output
        near(cost, out) == /\ 2 * (cost * CostUnit - exact(out)) <= CostUnit
                           /\ 2 * (exact(out) - cost * CostUnit) <= CostUnit
    IN /\ cost_pc \in {"single", "both"} => near(cost_single, cost_args.output_tokens)
       /\ cost_pc = "both" =>
             /\ near(cost_double, 2 * cost_args.output_tokens)
             /\ cost_double >= cost_single

\* Both estimates are computed for an unlisted provider, and doubling the
\* output moved the rounded estimate up.
C21_Witness ==
    /\ cost_pc = "both"
    /\ cost_args.provider \notin DOMAIN rates
    /\ cost_args.output_tokens > 0
    /\ cost_double > cost_single

(***************************************************************************)
(* Properties of concurrent approvals.                                     *)
(***************************************************************************)
\* C25: when both requests have finished, the account holds at most 3
\* distinct symbols.
C25_LimitUnderConcurrency ==
    (\A r \in Approvals : conc_pc[r] \in {"done", "400_position_limit"})
        => Cardinality(held) <= 3

(***************************************************************************)
(* Properties of incremental_update_with_retry.                            *)
(***************************************************************************)
Raising(k) == update_outcome[k].error # ""

\* The sleeps made once n attempts have raised and another attempt follows.
BackoffSleeps(n) == [k \in 1..n |-> 2 ^ (k - 1)]

RetryBounded ==
    /\ update_calls <= max_retries
    /\ \A k \in 1..update_calls : k < update_calls => Raising(k)
    /\ retry_pc = "returned" =>
          \/ /\ update_result.status = "success"
             /\ ~Raising(update_calls)
             /\ update_result.records = update_outcome[update_calls].records
             /\ sleeps = BackoffSleeps(update_calls - 1)
          \/ /\ update_result.status = "failed"
             /\ update_calls = max_retries
             /\ \A k \in 1..max_retries : Raising(k)
             /\ update_result.error = <<update_outcome[max_retries].error>>
             /\ sleeps = BackoffSleeps(max_retries - 1)

\* C24: the call returns; it makes at most max_retries attempts, all but the
\* last of them raising; it returns success with the count of the first attempt
\* that does not raise, or failed with the last error after max_retries raising
\* attempts; it has slept 1, 2, 4, ... seconds between attempts and not after
\* the last one; once it has returned nothing more happens.
C24_RetryTerminates ==
    /\ []RetryBounded
    /\ <>(retry_pc = "returned")
    /\ [][retry_pc = "returned" => UNCHANGED retry_vars]_vars

\* Two attempts raised, one second and then two seconds were slept, the third
\* attempt returned a count.
C24_Witness ==
    /\ retry_pc = "returned"
    /\ update_result.status = "success"
    /\ update_calls = max_retries
    /\ sleeps = <<1, 2>>

(***************************************************************************)
(* Properties of the prompt versions.                                      *)
(***************************************************************************)
OnlyCurrent(id) == CurrentVersions # {} /\ \A v \in CurrentVersions : v.id = id

\* C28: once get_current has run, exactly one version is current; after
\* update_prompt it is the new version, after an activate_version that found
\* its target it is the target; a delete_version of the current version is
\* refused and leaves the table as it was.
C28_OneCurrent ==
    /\ [](/\ got_current => Cardinality(CurrentVersions) = 1
          /\ prompt_response.op = "update_prompt" => OnlyCurrent(prompt_response.id)
          /\ (prompt_response.op = "activate_version" /\ prompt_response.outcome = "ok")
                => OnlyCurrent(prompt_response.id)
          /\ prompt_response.outcome = "refused_current" => OnlyCurrent(prompt_response.id))
    /\ [][/\ (prompt_response'.outcome = "refused_current" /\ prompt_response' # prompt_response)
                => prompt_versions' = prompt_versions
          /\ \A v \in CurrentVersions :
                (prompt_response'.op = "delete_version"
                   /\ prompt_response'.id = v.id /\ prompt_response' # prompt_response)
                  => /\ prompt_response'.outcome = "refused_current"
                     /\ prompt_versions' = prompt_versions]_vars

\* After get_current, an update and an activation of the first version, three
\* versions are stored and the deletion of the current one has been refused.
C28_Witness ==
    /\ got_current
    /\ Cardinality(prompt_versions) >= 3
    /\ prompt_response.op = "delete_version"
    /\ prompt_response.outcome = "refused_current"
    /\ prompt_response.id = 1

\* C29: no two stored versions carry the same label.
C29_LabelsUnique ==
    \A a, b \in prompt_versions : a.version = b.version => a.id = b.id

(***************************************************************************)
(* Properties of the schedule endpoints.                                   *)
(***************************************************************************)
\* C30: every enabled task with an expression croniter accepts holds, as its
\* next-run time, the next firing time of that expression.
C30_NextRunFollowsCron ==
    \A t \in DOMAIN schedule_task :
        (schedule_task[t].is_enabled /\ CronValid(schedule_task[t].cron_expression)) =>
            schedule_task[t].next_run_at = get_next(schedule_task[t].cron_expression, now)

====
